---- MODULE Spec2Model ----
(***************************************************************************)
(* A model of the schema resolution engine of resolve-schema-values:       *)
(* SchemaResolver (src/src/resolve.ts), mergeSchemas (src/src/merge.ts)    *)
(* and the helpers of src/src/utils.ts.                                    *)
(*                                                                         *)
(* JavaScript objects and arrays have identity and are mutated in place,   *)
(* so the model keeps a heap: a sequence of nodes addressed by position.   *)
(* A cell is a primitive value or a reference into the heap.  Every        *)
(* resolver operator takes a world (heap, negationDepth, ...) and returns  *)
(* the world after the call together with the Success/Failure it returns.  *)
(***************************************************************************)
EXTENDS Integers, Sequences, FiniteSets, TLC

----------------------------------------------------------------------------
(* Bounds of the model                                                     *)

\* numeric strings "0".."NumStrMax" are the strings that convert to a number
NumStrMax == 20

----------------------------------------------------------------------------
(* JavaScript values.  A number cell holds twice its value, so that n and  *)
(* n + 0.5 are both representable and Number.isInteger is n % 2 = 0.       *)

Prim(k, n, s) == [k |-> k, n |-> n, s |-> s]
Undefined == Prim("undefined", 0, "")
Null == Prim("null", 0, "")
Bool(b) == Prim("boolean", IF b THEN 1 ELSE 0, "")
Num(v) == Prim("number", 2 * v, "")
Half(v) == Prim("number", 2 * v + 1, "")
Str(s) == Prim("string", 0, s)
Ref(a) == Prim("ref", a, "")

\* value === undefined || value === null
IsNullish(c) == c.k \in {"undefined", "null"}

Max(a, b) == IF a >= b THEN a ELSE b
Min(a, b) == IF a <= b THEN a ELSE b

\* array.includes(x) for a sequence
Includes(seq, x) == \E i \in 1..Len(seq) : seq[i] = x

\* the key of array index i (0-based), as getValue(values, String(i)) reads it
IdxStr(i) == ToString(i)

\* an absent `key` argument
NoKey == "<undefined>"

----------------------------------------------------------------------------
(* The heap                                                                *)

\* a heap node: an object or an array; keys keeps the insertion order
Node(arr, keys, vals) == [arr |-> arr, keys |-> keys, vals |-> vals]

EmptyVals == [kk \in {} |-> Undefined]

\* Array.isArray(value)
IsArray(h, c) == c.k = "ref" /\ h[c.n].arr

\* utils.isObject
isObject(h, c) == c.k = "ref" /\ ~h[c.n].arr

\* the default accessor of the constructor: (obj, key) => obj?.[key]
getValue(h, obj, key) ==
  IF obj.k = "ref" /\ key \in DOMAIN h[obj.n].vals THEN h[obj.n].vals[key] ELSE Undefined

\* Object.keys(value), in insertion order
ObjectKeys(h, c) == IF c.k = "ref" THEN h[c.n].keys ELSE <<>>

\* value.length of an array
ArrayLength(h, c) == Len(h[c.n].keys)

\* obj[key] = c, in place
HeapSet(h, a, key, c) ==
  LET node == h[a] IN
  [h EXCEPT ![a] =
     IF key \in DOMAIN node.vals
     THEN Node(node.arr, node.keys, [node.vals EXCEPT ![key] = c])
     ELSE Node(node.arr, Append(node.keys, key),
               [kk \in (DOMAIN node.vals) \cup {key} |-> IF kk = key THEN c ELSE node.vals[kk]])]

\* a new object or array; its address is Len(h) + 1
HeapAlloc(h, node) == Append(h, node)

\* { ...a, ...b } for two objects, as a node
SpreadNode(h, a, b) ==
  LET na == IF isObject(h, a) THEN h[a.n] ELSE Node(FALSE, <<>>, EmptyVals)
      nb == IF isObject(h, b) THEN h[b.n] ELSE Node(FALSE, <<>>, EmptyVals)
  IN  Node(FALSE, na.keys \o SelectSeq(nb.keys, LAMBDA kk : kk \notin DOMAIN na.vals),
           [kk \in (DOMAIN na.vals) \cup (DOMAIN nb.vals) |->
              IF kk \in DOMAIN nb.vals THEN nb.vals[kk] ELSE na.vals[kk]])

----------------------------------------------------------------------------
(* Structural values (trees), used to state equality of values             *)

RECURSIVE Deref(_, _)
Deref(h, c) ==
  IF c.k = "ref"
  THEN [k |-> IF h[c.n].arr THEN "array" ELSE "object", n |-> 0, s |-> "",
        o |-> [kk \in DOMAIN h[c.n].vals |-> Deref(h, h[c.n].vals[kk])]]
  ELSE [k |-> c.k, n |-> c.n, s |-> c.s, o |-> <<>>]

\* tree constructors for the inputs
TUndefined == [k |-> "undefined", n |-> 0, s |-> "", o |-> <<>>]
TNull == [k |-> "null", n |-> 0, s |-> "", o |-> <<>>]
TBool(b) == [k |-> "boolean", n |-> IF b THEN 1 ELSE 0, s |-> "", o |-> <<>>]
TNum(v) == [k |-> "number", n |-> 2 * v, s |-> "", o |-> <<>>]
THalf(v) == [k |-> "number", n |-> 2 * v + 1, s |-> "", o |-> <<>>]
TStr(s) == [k |-> "string", n |-> 0, s |-> s, o |-> <<>>]
TObj(rec) == [k |-> "object", n |-> 0, s |-> "", o |-> rec]
TArr(seq) == [k |-> "array", n |-> 0, s |-> "",
              o |-> [kk \in {IdxStr(i - 1) : i \in 1..Len(seq)} |->
                       seq[CHOOSE i \in 1..Len(seq) : IdxStr(i - 1) = kk]]]

\* the order in which the keys of an input object were inserted
KeyOrder == <<"0", "1", "2", "a", "b", "c", "d", "k", "n", "age", "email", "username">>

\* Store a tree in the heap; the result is <<heap, cell>>
RECURSIVE Store(_, _)
RECURSIVE StoreKeys(_, _, _, _)
StoreKeys(h, addr, t, keys) ==
  IF keys = <<>> THEN h
  ELSE LET st == Store(h, t.o[Head(keys)])
       IN  StoreKeys(HeapSet(st[1], addr, Head(keys), st[2]), addr, t, Tail(keys))
Store(h, t) ==
  IF t.k \in {"object", "array"}
  THEN LET addr == Len(h) + 1
           h1 == HeapAlloc(h, Node(t.k = "array", <<>>, EmptyVals))
           keys == SelectSeq(KeyOrder, LAMBDA kk : kk \in DOMAIN t.o)
       IN  <<StoreKeys(h1, addr, t, keys), Ref(addr)>>
  ELSE <<h, Prim(t.k, t.n, t.s)>>

----------------------------------------------------------------------------
(* JavaScript conversions                                                  *)

\* String(number)
NumberToString(n) ==
  IF n % 2 = 0 THEN ToString(n \div 2) ELSE ToString((n - 1) \div 2) \o ".5"

\* String(value); an array joins its elements with ","
RECURSIVE JSString(_, _)
RECURSIVE JoinElems(_, _, _)
JoinElems(h, c, i) ==
  IF i > ArrayLength(h, c) THEN ""
  ELSE LET e == getValue(h, c, IdxStr(i - 1))
           es == IF IsNullish(e) THEN "" ELSE JSString(h, e)
       IN  IF i = 1 THEN es \o JoinElems(h, c, i + 1)
           ELSE "," \o es \o JoinElems(h, c, i + 1)
JSString(h, c) ==
  CASE c.k = "undefined" -> "undefined"
    [] c.k = "null" -> "null"
    [] c.k = "boolean" -> IF c.n = 1 THEN "true" ELSE "false"
    [] c.k = "number" -> NumberToString(c.n)
    [] c.k = "string" -> c.s
    [] c.k = "ref" -> IF h[c.n].arr THEN JoinElems(h, c, 1) ELSE "[object Object]"

\* a JavaScript number or NaN; n is twice the number
NaN == [nan |-> TRUE, n |-> 0]
Finite(n) == [nan |-> FALSE, n |-> n]

\* Number(string), for the strings of the model
StringToNumber(s) ==
  IF s = "" THEN Finite(0)
  ELSE IF s = "123" THEN Finite(246)
  ELSE IF s = "123456789" THEN Finite(246913578)
  ELSE IF \E v \in 0..NumStrMax : ToString(v) = s
       THEN Finite(2 * (CHOOSE v \in 0..NumStrMax : ToString(v) = s))
       ELSE NaN

\* the ToNumber conversion that <, >, <=, >= and % apply to a non-number
ToNumber(h, c) ==
  CASE c.k = "number" -> Finite(c.n)
    [] c.k = "boolean" -> Finite(2 * c.n)
    [] c.k = "null" -> Finite(0)
    [] c.k = "undefined" -> NaN
    [] c.k = "string" -> StringToNumber(c.s)
    [] c.k = "ref" -> StringToNumber(JSString(h, c))

\* value < bound, value > bound, ... with a numeric bound of the schema
JSLess(h, c, bound) == LET x == ToNumber(h, c) IN ~x.nan /\ x.n < 2 * bound
JSGreater(h, c, bound) == LET x == ToNumber(h, c) IN ~x.nan /\ x.n > 2 * bound
JSLessEq(h, c, bound) == LET x == ToNumber(h, c) IN ~x.nan /\ x.n <= 2 * bound
JSGreaterEq(h, c, bound) == LET x == ToNumber(h, c) IN ~x.nan /\ x.n >= 2 * bound

\* value % m !== 0
NotMultipleOf(h, c, m) ==
  LET x == ToNumber(h, c) IN x.nan \/ m = 0 \/ x.n % (2 * (IF m < 0 THEN -m ELSE m)) # 0

\* Number.isInteger(value)
IsInteger(c) == c.k = "number" /\ c.n % 2 = 0

\* value === other (strict equality; two references are equal when they
\* are the same object)
StrictEq(a, b) == a = b

----------------------------------------------------------------------------
(* Strings: grapheme segmentation, patterns and formats                    *)

\* getSegments(input).length; the strings of the model are ASCII, one
\* grapheme per character
getSegments(s) == Len(s)

\* the strings of the model that each regular expression matches
DigitStrings == {ToString(v) : v \in 0..NumStrMax} \cup {"123", "123456789"}
LowerStrings == {"j", "x", "y", "abc", "john", "business", "personal", "minor", "adult"}
EmailStrings == {"a@b.co", "john@example.com"}
DateStrings == {"2024-01-02"}
TimeStrings == {"10:20:30"}
DateTimeStrings == {"2024-01-02", "2024-01-02T10:20:30Z"}
Ipv4Strings == {"10.0.0.1"}
UuidStrings == {"123e4567-e89b-12d3-a456-426614174000"}
LeadingAStrings == {"a", "abc", "adult", "age", "a@b.co"}

\* new RegExp(pattern, 'u').test(s), for the patterns of the model
RegExpTest(pattern, s) ==
  CASE pattern = "^\\d+$" -> s \in DigitStrings
    [] pattern = "^\\d{9}$" -> s = "123456789"
    [] pattern = "^[a-z]+$" -> s \in LowerStrings
    [] pattern = "^a" -> s \in LeadingAStrings
    [] OTHER -> TRUE

isValidFormat(s, format) ==
  CASE format = "date-time" -> s \in DateTimeStrings
    [] format = "date" -> s \in DateStrings
    [] format = "time" -> s \in TimeStrings
    [] format = "email" -> s \in EmailStrings
    [] format = "ipv4" -> s \in Ipv4Strings
    [] format = "uuid" -> s \in UuidStrings
    [] OTHER -> TRUE

----------------------------------------------------------------------------
(* Schemas are records that have a field for each keyword they declare.    *)

Has(schema, kw) == kw \in DOMAIN schema

\* a single type name, or a list of type names
Type(name) == [list |-> FALSE, of |-> <<name>>]
Types(names) == [list |-> TRUE, of |-> names]

\* schema.type === name
TypeIs(schema, name) == Has(schema, "type") /\ ~schema.type.list /\ schema.type.of[1] = name

\* an entry of `properties` (and of `dependentSchemas`), in declaration order
P(key, schema) == [key |-> key, schema |-> schema]

\* schema.properties?.[key], as <<found, schema>>
PropIndex(props, key) == {i \in 1..Len(props) : props[i].key = key}
HasProp(schema, key) == Has(schema, "properties") /\ PropIndex(schema.properties, key) # {}
PropOf(schema, key) == schema.properties[CHOOSE i \in PropIndex(schema.properties, key) : TRUE].schema

\* parent?.required || []
RequiredOf(parent) == IF Has(parent, "required") THEN parent.required ELSE <<>>

\* the options argument
NoOptions == [skipValidation |-> FALSE]
SkipValidation == [skipValidation |-> TRUE]

----------------------------------------------------------------------------
(* mergeSchemas (merge.ts)                                                 *)

EmptySchema == [kw \in {} |-> 0]

\* `additionalProperties` and `additionalItems`: a boolean or a schema
Allow(b) == [isSchema |-> FALSE, allow |-> b, schema |-> EmptySchema]
Sub(schema) == [isSchema |-> TRUE, allow |-> TRUE, schema |-> schema]

\* `items`: one schema or an ordered list of schemas
Items(schema) == [list |-> FALSE, of |-> <<schema>>]
Tuple(schemas) == [list |-> TRUE, of |-> schemas]

\* a ?? b for two optional cells: <<defined, cell>>
Coalesce(hasA, a, hasB, b) == IF hasA /\ a.k # "null" THEN a ELSE IF hasB THEN b ELSE a

\* mergeArrays on primitives and references: [...new Set([...arr1, ...arr2])]
RECURSIVE Dedupe(_)
Dedupe(seq) ==
  IF seq = <<>> THEN <<>>
  ELSE LET front == Dedupe(SubSeq(seq, 1, Len(seq) - 1))
           last == seq[Len(seq)]
       IN  IF Includes(front, last) THEN front ELSE Append(front, last)
mergeArrays(arr1, arr2) == Dedupe(arr1 \o arr2)

\* mergeArrays on lists of schema objects.  Set keeps one entry per object
\* identity; the sub-schemas of two operands are distinct objects.
mergeSchemaArrays(arr1, arr2) == arr1 \o arr2

Field(schema, kw, absent) == IF Has(schema, kw) THEN schema[kw] ELSE absent

\* the keys of two property maps: those of the first, then the new ones
MapKeys(m1, m2) ==
  [i \in 1..Len(m1) |-> m1[i].key]
  \o SelectSeq([i \in 1..Len(m2) |-> m2[i].key],
               LAMBDA kk : \A j \in 1..Len(m1) : m1[j].key # kk)
MapHas(m, key) == \E i \in 1..Len(m) : m[i].key = key
MapGet(m, key) == m[CHOOSE i \in 1..Len(m) : m[i].key = key].schema

SchemaKeywords == {"if", "then", "else", "not", "contains", "propertyNames"}
SchemaListKeywords == {"allOf", "anyOf", "oneOf", "prefixItems"}
MapKeywords == {"properties", "patternProperties", "dependentSchemas"}

\* deepMerge, applied to two schema objects
RECURSIVE deepMerge(_, _)
RECURSIVE deepMergeMap(_, _)
deepMergeMap(m1, m2) ==
  LET keys == MapKeys(m1, m2) IN
  [i \in 1..Len(keys) |->
     P(keys[i],
       IF MapHas(m1, keys[i]) /\ MapHas(m2, keys[i])
       THEN deepMerge(MapGet(m1, keys[i]), MapGet(m2, keys[i]))
       ELSE IF MapHas(m2, keys[i]) THEN MapGet(m2, keys[i]) ELSE MapGet(m1, keys[i]))]
deepMerge(obj1, obj2) ==
  [kw \in (DOMAIN obj1) \cup (DOMAIN obj2) |->
     IF ~Has(obj1, kw) THEN obj2[kw]
     ELSE IF ~Has(obj2, kw) THEN obj1[kw]
     ELSE CASE kw \in SchemaKeywords -> deepMerge(obj1[kw], obj2[kw])
            [] kw \in MapKeywords -> deepMergeMap(obj1[kw], obj2[kw])
            [] kw \in SchemaListKeywords -> mergeSchemaArrays(obj1[kw], obj2[kw])
            [] kw \in {"required", "enum"} -> mergeArrays(obj1[kw], obj2[kw])
            [] kw = "type" ->
                 IF obj1[kw].list \/ obj2[kw].list
                 THEN Types(mergeArrays(obj1[kw].of, obj2[kw].of))
                 ELSE obj2[kw]
            [] kw = "items" ->
                 IF obj1[kw].list \/ obj2[kw].list
                 THEN Tuple(mergeSchemaArrays(obj1[kw].of, obj2[kw].of))
                 ELSE Items(deepMerge(obj1[kw].of[1], obj2[kw].of[1]))
            [] kw \in {"additionalProperties", "additionalItems"} ->
                 IF obj1[kw].isSchema /\ obj2[kw].isSchema
                 THEN Sub(deepMerge(obj1[kw].schema, obj2[kw].schema))
                 ELSE obj2[kw]
            [] OTHER -> obj2[kw]]

\* mergeSchemas(schema1, schema2); a third argument is ignored
RECURSIVE mergeSchemas(_, _)
mergeSchemas(schema1, schema2) ==
  [kw \in (DOMAIN schema1) \cup (DOMAIN schema2) |->
     CASE kw = "const" ->
            Coalesce(Has(schema2, kw), Field(schema2, kw, Undefined),
                     Has(schema1, kw), Field(schema1, kw, Undefined))
       [] kw = "enum" -> mergeArrays(Field(schema1, kw, <<>>), Field(schema2, kw, <<>>))
       [] kw = "items" ->
            IF Has(schema2, kw)
            THEN IF Has(schema1, kw)
                 THEN Items(mergeSchemas(
                        IF schema1.items.list THEN EmptySchema ELSE schema1.items.of[1],
                        IF schema2.items.list THEN EmptySchema ELSE schema2.items.of[1]))
                 ELSE schema2.items
            ELSE schema1.items
       [] kw = "required" -> mergeArrays(Field(schema1, kw, <<>>), Field(schema2, kw, <<>>))
       [] kw = "properties" ->
            LET p1 == Field(schema1, kw, <<>>)
                p2 == Field(schema2, kw, <<>>)
                keys == MapKeys(p1, p2)
            IN  [i \in 1..Len(keys) |->
                   P(keys[i],
                     IF MapHas(p1, keys[i]) /\ MapHas(p2, keys[i])
                     THEN mergeSchemas(MapGet(p1, keys[i]), MapGet(p2, keys[i]))
                     ELSE IF MapHas(p2, keys[i]) THEN MapGet(p2, keys[i])
                          ELSE MapGet(p1, keys[i]))]
       [] kw = "patternProperties" ->
            deepMergeMap(Field(schema1, kw, <<>>), Field(schema2, kw, <<>>))
       [] kw = "additionalProperties" ->
            IF Has(schema1, kw) /\ Has(schema2, kw)
               /\ schema1[kw].isSchema /\ schema2[kw].isSchema
            THEN Sub(mergeSchemas(schema1[kw].schema, schema2[kw].schema))
            ELSE IF Has(schema2, kw) THEN schema2[kw] ELSE schema1[kw]
       [] kw = "dependentSchemas" ->
            deepMergeMap(Field(schema1, kw, <<>>), Field(schema2, kw, <<>>))
       [] kw \in {"allOf", "anyOf", "oneOf"} ->
            mergeSchemaArrays(Field(schema1, kw, <<>>), Field(schema2, kw, <<>>))
       [] OTHER -> IF Has(schema2, kw) THEN schema2[kw] ELSE schema1[kw]]

\* const { [kw]: _, ...rest } = schema
Without(schema, kws) == [kw \in (DOMAIN schema) \ kws |-> schema[kw]]

----------------------------------------------------------------------------
(* Results.  A world is a record with the fields h (heap), nd              *)
(* (negationDepth), pend (decrements of negationDepth that a `finally`     *)
(* block performs when the running call first suspends at an await) and    *)
(* ef (some failure was built from an empty error list), early (a `finally` *)
(* block has lowered negationDepth while the call that its resolveNot had  *)
(* started was suspended), thrown (an exception is propagating) and the    *)
(* fields of the Success or Failure that the last call returned: ok,       *)
(* value, errors.  Two more fields follow the calls of                     *)
(* internalResolveValues: outer is the size of the schema of the call that *)
(* is running (-1 outside of any call), and grew tells that some call was  *)
(* made, by a running call, on a schema that is not smaller than the       *)
(* schema of that running call.                                            *)

World(h) ==
  [h |-> h, nd |-> 0, pend |-> 0, ef |-> FALSE, early |-> FALSE, thrown |-> FALSE,
   ok |-> TRUE, value |-> Undefined, errors |-> <<>>, outer |-> -1, grew |-> FALSE]

\* the size of a schema: the number of keywords it declares, those of its
\* sub-schemas included; a list of types counts one more than its names
RECURSIVE Measure(_)
RECURSIVE MeasureAll(_)
RECURSIVE MeasureKeywords(_, _)
RECURSIVE KeywordMeasure(_, _)
MeasureAll(schemas) ==
  IF schemas = <<>> THEN 0 ELSE Measure(Head(schemas)) + MeasureAll(Tail(schemas))
KeywordMeasure(schema, kw) ==
  CASE kw \in SchemaKeywords -> 1 + Measure(schema[kw])
    [] kw \in SchemaListKeywords -> 1 + MeasureAll(schema[kw])
    [] kw \in MapKeywords ->
         1 + Len(schema[kw]) + MeasureAll([i \in 1..Len(schema[kw]) |-> schema[kw][i].schema])
    [] kw = "items" -> 1 + MeasureAll(schema.items.of)
    [] kw \in {"additionalProperties", "additionalItems"} -> 1 + Measure(schema[kw].schema)
    [] kw = "type" -> Len(schema.type.of) + (IF schema.type.list THEN 1 ELSE 0)
    [] OTHER -> 1
MeasureKeywords(schema, kws) ==
  IF kws = {} THEN 0
  ELSE LET kw == CHOOSE k \in kws : TRUE
       IN  KeywordMeasure(schema, kw) + MeasureKeywords(schema, kws \ {kw})
Measure(schema) == MeasureKeywords(schema, DOMAIN schema)

\* a call of internalResolveValues on schema starts in the world w
Enters(w, schema) ==
  [w EXCEPT !.grew = @ \/ (w.outer >= 0 /\ Measure(schema) >= w.outer),
            !.outer = Measure(schema)]

\* the call that started in the world w returns in the world r
Returns(w, r) == [r EXCEPT !.outer = w.outer]

Err(message) == [message |-> message, path |-> <<>>]
ErrAt(message, path) == [message |-> message, path |-> path]

success(w, value) == [w EXCEPT !.ok = TRUE, !.value = value, !.errors = <<>>]

failure(w, errors) ==
  [w EXCEPT !.ok = FALSE, !.value = Undefined, !.errors = errors,
            !.ef = (w.ef \/ errors = <<>>)]

\* a TypeError propagates to the caller of resolveValues
Throw(w) == [w EXCEPT !.thrown = TRUE, !.ok = FALSE, !.value = Undefined, !.errors = <<>>]

\* the heap of a world replaced
WithHeap(w, h) == [w EXCEPT !.h = h]

isInsideNegation(w) == w.nd > 0

\* a suspension at an await: the `finally` blocks of the callers that have
\* already returned their promise run
Await(w) == [w EXCEPT !.nd = w.nd - w.pend, !.pend = 0, !.early = @ \/ w.pend > 0]

\* each error prefixed with a property name or an index
PrefixErrors(errors, key) ==
  [i \in 1..Len(errors) |-> ErrAt(errors[i].message, <<key>> \o errors[i].path)]

----------------------------------------------------------------------------
(* The resolvers of the primitive types                                    *)

\* a one-element error list if the condition holds
When(cond, message) == IF cond THEN <<Err(message)>> ELSE <<>>

resolveNull(w, schema, value, parent, key) ==
  IF ~IsNullish(value)
  THEN failure(w, <<Err("Value must be null")>>)
  ELSE success(w, Null)

resolveBoolean(w, schema, value, parent, key) ==
  IF IsNullish(value)
  THEN success(w, IF Has(schema, "default") THEN schema.default ELSE Bool(FALSE))
  ELSE IF value.k # "boolean"
       THEN failure(w, <<Err("Value must be a boolean")>>)
       ELSE success(w, value)

\* the checks resolveInteger and resolveNumber share, in their order
NumericErrors(w, schema, value) ==
  When(Has(schema, "minimum") /\ JSLess(w.h, value, schema.minimum),
       "Value must be >= " \o ToString(schema.minimum))
  \o When(Has(schema, "maximum") /\ JSGreater(w.h, value, schema.maximum),
          "Value must be <= " \o ToString(schema.maximum))
  \o When(Has(schema, "exclusiveMinimum") /\ JSLessEq(w.h, value, schema.exclusiveMinimum),
          "Value must be > " \o ToString(schema.exclusiveMinimum))
  \o When(Has(schema, "exclusiveMaximum") /\ JSGreaterEq(w.h, value, schema.exclusiveMaximum),
          "Value must be < " \o ToString(schema.exclusiveMaximum))
  \o When(Has(schema, "multipleOf") /\ NotMultipleOf(w.h, value, schema.multipleOf),
          "Value must be a multiple of " \o ToString(schema.multipleOf))

resolveInteger(w, schema, value, parent, key) ==
  IF IsNullish(value)
  THEN IF Has(schema, "default") THEN success(w, schema.default)
       ELSE IF Includes(RequiredOf(parent), key) /\ ~isInsideNegation(w)
            THEN failure(w, <<Err("Missing required integer: " \o key)>>)
            ELSE success(w, Num(0))
  ELSE LET errors == When(value.k # "number", "Value must be a number")
                     \o When(TypeIs(schema, "integer") /\ ~IsInteger(value),
                             "Value must be an integer")
                     \o NumericErrors(w, schema, value)
       IN  IF Len(errors) > 0 THEN failure(w, errors) ELSE success(w, value)

\* the zero value resolveNumber returns for a missing value
resolveNumber(w, schema, value, parent, key) ==
  IF IsNullish(value)
  THEN IF Has(schema, "default") THEN success(w, schema.default)
       ELSE IF Includes(RequiredOf(parent), key) /\ ~isInsideNegation(w)
            THEN failure(w, <<Err("Missing required number: " \o key)>>)
            ELSE success(w, Num(0))
  ELSE LET errors == When(value.k # "number", "Value must be a number")
                     \o NumericErrors(w, schema, value)
       IN  IF Len(errors) > 0 THEN failure(w, errors) ELSE success(w, value)

resolveString(w, schema, value, parent, key) ==
  IF IsNullish(value)
  THEN IF Has(schema, "default") THEN success(w, schema.default)
       ELSE IF Includes(RequiredOf(parent), key) /\ ~isInsideNegation(w)
            THEN failure(w, <<Err("Missing required string: " \o key)>>)
            ELSE success(w, Undefined)
  ELSE LET text == JSString(w.h, value)
           length == getSegments(text)
           errors ==
             When(value.k # "string", "Value must be a string")
             \o When(Has(schema, "minLength") /\ length < schema.minLength,
                     "String length must be >= " \o ToString(schema.minLength))
             \o When(Has(schema, "maxLength") /\ length > schema.maxLength,
                     "String length must be <= " \o ToString(schema.maxLength))
             \o When(Has(schema, "pattern") /\ schema.pattern # ""
                       /\ ~RegExpTest(schema.pattern, text),
                     "String must match pattern: " \o schema.pattern)
             \o When(Has(schema, "format") /\ schema.format # ""
                       /\ ~isValidFormat(text, schema.format),
                     "Invalid " \o schema.format \o " format")
       IN  IF Len(errors) > 0 THEN failure(w, errors) ELSE success(w, value)

----------------------------------------------------------------------------
(* utils.ts                                                                *)

isComposition(schema) ==
  Has(schema, "allOf") \/ Has(schema, "anyOf") \/ Has(schema, "oneOf") \/ Has(schema, "not")

\* the concrete type of a value among the listed types; "undefined" if none
getValueType(h, value, types) ==
  IF value.k = "null" /\ Includes(types, "null") THEN "null"
  ELSE IF IsArray(h, value) /\ Includes(types, "array") THEN "array"
  ELSE IF isObject(h, value) /\ Includes(types, "object") THEN "object"
  ELSE IF value.k = "boolean" /\ Includes(types, "boolean") THEN "boolean"
  ELSE IF value.k = "string" /\ Includes(types, "string") THEN "string"
  ELSE IF value.k = "number" /\ Includes(types, "number") THEN "number"
  ELSE IF value.k = "number" /\ Includes(types, "integer") THEN "integer"
  ELSE "undefined"

\* schema-props.ts
schemaPropsBase ==
  {"type", "title", "description", "default", "examples", "deprecated", "readOnly",
   "writeOnly", "$id", "$schema", "$ref", "definitions", "enum", "const",
   "allOf", "anyOf", "oneOf", "not", "if", "then", "else"}
schemaProps(valueType) ==
  CASE valueType = "string" ->
         {"maxLength", "minLength", "pattern", "format", "contentMediaType", "contentEncoding"}
    [] valueType \in {"number", "integer"} ->
         {"multipleOf", "maximum", "exclusiveMaximum", "minimum", "exclusiveMinimum"}
    [] valueType = "array" ->
         {"items", "additionalItems", "maxItems", "minItems", "uniqueItems", "contains",
          "maxContains", "minContains"}
    [] valueType = "object" ->
         {"maxProperties", "minProperties", "required", "properties", "patternProperties",
          "additionalProperties", "dependencies", "propertyNames"}
    [] OTHER -> {}

filterProps(schema, valueType) ==
  [kw \in (DOMAIN schema) \cap (schemaPropsBase \cup schemaProps(valueType)) |-> schema[kw]]

\* array.join(', ') of a list of type names
RECURSIVE JoinNames(_)
JoinNames(names) ==
  IF names = <<>> THEN ""
  ELSE IF Len(names) = 1 THEN names[1]
  ELSE names[1] \o ", " \o JoinNames(Tail(names))

\* array.join(', ') of a list of values
RECURSIVE JoinValues(_, _)
JoinValues(h, cells) ==
  IF cells = <<>> THEN ""
  ELSE LET first == IF IsNullish(cells[1]) THEN "" ELSE JSString(h, cells[1])
       IN  IF Len(cells) = 1 THEN first ELSE first \o ", " \o JoinValues(h, Tail(cells))

\* a value in a condition: false, 0, "", null and undefined are falsy
Truthy(c) ==
  CASE c.k \in {"undefined", "null"} -> FALSE
    [] c.k \in {"boolean", "number"} -> c.n # 0
    [] c.k = "string" -> c.s # ""
    [] OTHER -> TRUE

\* deepAssign(target, source): <<heap, returned value>>
RECURSIVE deepAssign(_, _, _)
RECURSIVE deepAssignKeys(_, _, _, _)
RECURSIVE deepAssignItems(_, _, _, _, _)
deepAssignKeys(h, target, source, keys) ==
  IF keys = <<>> THEN h
  ELSE LET key == Head(keys)
           targetValue == getValue(h, target, key)
           sourceValue == getValue(h, source, key)
       IN  IF targetValue.k # "ref"
           THEN deepAssignKeys(HeapSet(h, target.n, key, sourceValue), target, source, Tail(keys))
           ELSE LET sub == deepAssign(h, targetValue, sourceValue)
                IN  deepAssignKeys(HeapSet(sub[1], target.n, key, sub[2]), target, source, Tail(keys))
deepAssignItems(h, result, target, source, j) ==
  IF j >= ArrayLength(h, source) THEN h
  ELSE IF j < ArrayLength(h, target)
       THEN LET sub == deepAssign(h, getValue(h, target, IdxStr(j)), getValue(h, source, IdxStr(j)))
            IN  deepAssignItems(HeapSet(sub[1], result.n, IdxStr(j), sub[2]), result, target, source, j + 1)
       ELSE deepAssignItems(HeapSet(h, result.n, IdxStr(j), getValue(h, source, IdxStr(j))),
                            result, target, source, j + 1)
deepAssign(h, target, source) ==
  IF target.k # "ref" THEN <<h, source>>
  ELSE IF IsArray(h, target)
       THEN IF IsArray(h, source)
            THEN LET result == Ref(Len(h) + 1)
                     h1 == HeapAlloc(h, h[target.n])
                 IN  <<deepAssignItems(h1, result, target, source, 0), result>>
            ELSE <<h, target>>
       ELSE IF source.k # "ref" THEN <<h, target>>
            ELSE <<deepAssignKeys(h, target, source, ObjectKeys(h, source)), target>>

----------------------------------------------------------------------------
(* SchemaResolver: conditionals and composition                            *)

\* the key under which the items of an array are resolved: the key of the
\* array itself is passed on, and the index goes into the path only
ItemsSchema(items) == IF items.list THEN EmptySchema ELSE items.of[1]

\* a boolean returned by evaluateCondition, carried in the field ok
Answer(w, b) == [w EXCEPT !.ok = b, !.value = Undefined, !.errors = <<>>]

RECURSIVE internalResolveValues(_, _, _, _, _, _)
RECURSIVE resolveValue(_, _, _, _, _, _)
RECURSIVE resolveComposition(_, _, _, _, _, _)
RECURSIVE resolveNot(_, _, _, _, _, _)
RECURSIVE resolveAllOf(_, _, _, _, _, _)
RECURSIVE allOfLoop(_, _, _, _, _, _, _, _, _)
RECURSIVE resolveAnyOf(_, _, _, _, _, _)
RECURSIVE anyOfLoop(_, _, _, _, _, _, _)
RECURSIVE resolveOneOf(_, _, _, _, _, _)
RECURSIVE oneOfLoop(_, _, _, _, _, _, _, _)
RECURSIVE resolveConditional(_, _, _, _, _, _)
RECURSIVE evaluateCondition(_, _, _, _, _, _)
RECURSIVE evaluateItems(_, _, _, _, _, _, _)
RECURSIVE evaluateProperties(_, _, _, _, _, _)
RECURSIVE resolveArray(_, _, _, _, _, _)
RECURSIVE resolveArrayItems(_, _, _, _, _, _)
RECURSIVE resolveObject(_, _, _, _, _, _)
RECURSIVE resolveObjectProperties(_, _, _, _, _, _)
RECURSIVE resolveDependentSchemas(_, _, _, _, _, _)

\* the loop over the items of evaluateCondition, from index i
evaluateItems(w, schema, value, parent, key, options, i) ==
  LET Checked(resolved) ==
        IF resolved.thrown THEN resolved
        ELSE IF ~resolved.ok THEN Answer(resolved, FALSE)
        ELSE evaluateItems(resolved, schema, value, parent, key, options, i + 1)
  IN  IF w.thrown THEN w
      ELSE IF i >= ArrayLength(w.h, value) THEN Answer(w, TRUE)
      ELSE Checked(Await(internalResolveValues(w, ItemsSchema(schema.items),
                                               getValue(w.h, value, IdxStr(i)),
                                               parent, key, options)))

\* the loop over the properties of evaluateCondition, from entry i
evaluateProperties(w, schema, value, parent, options, i) ==
  LET prop == schema.properties[i].key
      condition == schema.properties[i].schema
      propValue == getValue(w.h, value, prop)
      missing == propValue.k = "undefined"
      w1 == IF missing /\ Has(condition, "default")
            THEN WithHeap(w, HeapSet(w.h, value.n, prop, condition.default))
            ELSE w
      propSchema == mergeSchemas(IF HasProp(parent, prop) THEN PropOf(parent, prop)
                                 ELSE EmptySchema, condition)
      Checked(resolved) ==
        IF resolved.thrown THEN resolved
        ELSE IF ~resolved.ok THEN Answer(resolved, FALSE)
        ELSE evaluateProperties(resolved, schema, value, parent, options, i + 1)
  IN  IF w.thrown THEN w
      ELSE IF i > Len(schema.properties) THEN Answer(w, TRUE)
      ELSE IF missing /\ ~Has(condition, "default") THEN Answer(w, FALSE)
      ELSE Checked(Await(internalResolveValues(w1, propSchema, propValue, schema, prop,
                                               SkipValidation)))

evaluateCondition(w, schema, value, parent, key, options) ==
  LET containsConst == Has(schema, "contains") /\ Has(schema.contains, "const")
                       /\ Truthy(schema.contains.const)
      some == \E i \in 0..(ArrayLength(w.h, value) - 1) :
                StrictEq(getValue(w.h, value, IdxStr(i)), schema.contains.const)
      Checked(resolved) == IF resolved.thrown THEN resolved ELSE Answer(resolved, resolved.ok)
  IN  IF containsConst /\ IsNullish(value) THEN Answer(w, FALSE)
      ELSE IF containsConst /\ ~IsArray(w.h, value) THEN Throw(w)
      ELSE IF containsConst /\ ~some THEN Answer(w, FALSE)
      ELSE IF Has(schema, "items")
           THEN IF ~IsArray(w.h, value) THEN Answer(w, FALSE)
                ELSE evaluateItems(w, schema, value, parent, key, options, 0)
      ELSE IF Has(schema, "properties")
           THEN IF ~isObject(w.h, value) THEN Answer(w, FALSE)
                ELSE evaluateProperties(w, schema, value, parent, options, 1)
      ELSE Checked(Await(internalResolveValues(w, schema, value, parent, key, SkipValidation)))

resolveConditional(w, schema, value, parent, key, options) ==
  LET partialSchema == Without(schema, {"if", "then", "else"})
      \* what follows the evaluation of `if`
      Branch(isSatisfied) ==
        IF isSatisfied.thrown THEN isSatisfied
        ELSE Await(internalResolveValues(
                     isSatisfied,
                     mergeSchemas(partialSchema,
                                  IF isSatisfied.ok THEN Field(schema, "then", EmptySchema)
                                  ELSE Field(schema, "else", EmptySchema)),
                     value, parent, key, options))
  IN  Branch(Await(evaluateCondition(w, schema["if"], value, parent, key, options)))

\* the loop of resolveAllOf from member i; the world returned carries the
\* errors pushed so far and the accumulated `values`
allOfLoop(w, allOf, partialSchema, value, parent, options, i, errors, values) ==
  LET subSchema == allOf[i]
      hasIf == Has(subSchema, "if")
      \* the rest of the loop body, for the result of the member and the
      \* object deepAssign(values, result.value) returns
      Assigned(result, errors1, assigned) ==
        IF ~result.ok
        THEN allOfLoop(result, allOf, partialSchema, value, parent, options, i + 1,
                       errors1 \o result.errors, values)
        ELSE allOfLoop(WithHeap(result, assigned[1]), allOf, partialSchema, value, parent,
                       options, i + 1, errors1, assigned[2])
      Resolved(result, errors1) ==
        IF result.thrown THEN result
        ELSE Assigned(result, errors1, deepAssign(result.h, values, result.value))
      \* the loop body after the conditional of a member that has `if`
      Checked(condResult) ==
        Resolved(Await(internalResolveValues(condResult,
                                             IF hasIf THEN partialSchema
                                             ELSE mergeSchemas(subSchema, partialSchema),
                                             value, parent, "allOf", options)),
                 IF hasIf /\ ~condResult.ok THEN errors \o condResult.errors ELSE errors)
  IN  IF w.thrown THEN w
      ELSE IF i > Len(allOf) THEN [w EXCEPT !.errors = errors, !.value = values]
      ELSE Checked(IF hasIf
                   THEN Await(resolveConditional(w, mergeSchemas(subSchema, partialSchema),
                                                 value, parent, "allOf", options))
                   ELSE w)

resolveAllOf(w, schema, value, parent, key, options) ==
  LET partialSchema == Without(schema, {"allOf"})
      values == Ref(Len(w.h) + 1)
      w1 == WithHeap(w, HeapAlloc(w.h, Node(FALSE, <<>>, EmptyVals)))
      \* what follows the loop
      Merged(done) ==
        IF done.thrown THEN done
        ELSE IF Len(done.errors) > 0 THEN failure(done, done.errors)
        ELSE IF isObject(done.h, value) /\ isObject(done.h, done.value)
             THEN success(done, done.value)
             ELSE internalResolveValues(done, partialSchema, value, parent, key, NoOptions)
  IN  Merged(allOfLoop(w1, schema.allOf, partialSchema, value, parent, options, 1, <<>>, values))

\* the loop of resolveAnyOf from branch i
anyOfLoop(w, schema, rest, value, parent, options, i) ==
  LET Checked(resolved) ==
        IF resolved.thrown THEN resolved
        ELSE IF resolved.ok THEN success(resolved, value)
        ELSE anyOfLoop(resolved, schema, rest, value, parent, options, i + 1)
  IN  IF w.thrown THEN w
      ELSE IF i > Len(schema.anyOf)
           THEN IF Has(schema, "default") THEN success(w, schema.default)
                ELSE failure(w, <<Err("Value must match at least one schema in anyOf")>>)
      ELSE Checked(Await(internalResolveValues(w, mergeSchemas(schema.anyOf[i], rest), value,
                                               parent, "anyOf", options)))

resolveAnyOf(w, schema, value, parent, key, options) ==
  anyOfLoop(w, schema, Without(schema, {"anyOf"}), value, parent, options, 1)

\* the loop of resolveOneOf from branch i, with the branches valid so far
oneOfLoop(w, schema, rest, value, parent, options, i, validCount) ==
  LET Checked(resolved) ==
        IF resolved.thrown THEN resolved
        ELSE oneOfLoop(resolved, schema, rest, value, parent, options, i + 1,
                       IF resolved.ok THEN validCount + 1 ELSE validCount)
  IN  IF w.thrown THEN w
      ELSE IF i > Len(schema.oneOf)
           THEN IF validCount # 1
                THEN IF Has(schema, "default") THEN success(w, schema.default)
                     ELSE failure(w, <<Err("Value must match exactly one schema in oneOf")>>)
                ELSE success(w, value)
      ELSE Checked(Await(internalResolveValues(w, mergeSchemas(schema.oneOf[i], rest), value,
                                               parent, "oneOf", options)))

resolveOneOf(w, schema, value, parent, key, options) ==
  oneOfLoop(w, schema, Without(schema, {"oneOf"}), value, parent, options, 1, 0)

\* negationDepth is raised for the probe; the `finally` block lowers it when
\* resolveNot returns, which for the second call is at its first suspension
resolveNot(w, schema, value, parent, key, options) ==
  LET notSchema == schema["not"]
      partialSchema == Without(schema, {"not"})
      raised == [w EXCEPT !.nd = w.nd + 1]
      notResult == Await(internalResolveValues(raised, notSchema, value, parent, "not", options))
      refused == failure(notResult, <<Err("Value must not match schema")>>)
  IN  IF notResult.thrown THEN notResult
      ELSE IF notResult.ok THEN [refused EXCEPT !.nd = refused.nd - 1]
      ELSE internalResolveValues([notResult EXCEPT !.pend = notResult.pend + 1],
                                 partialSchema, value, parent, "not", options)

resolveComposition(w, schema, value, parent, key, options) ==
  IF Has(schema, "not") THEN resolveNot(w, schema, value, parent, key, options)
  ELSE IF Has(schema, "allOf") THEN resolveAllOf(w, schema, value, parent, key, options)
  ELSE IF Has(schema, "anyOf") THEN resolveAnyOf(w, schema, value, parent, key, options)
  ELSE IF Has(schema, "oneOf") THEN resolveOneOf(w, schema, value, parent, key, options)
  ELSE success(w, value)

----------------------------------------------------------------------------
(* SchemaResolver: arrays                                                  *)

\* the key handed down for an array item is its numeric index, which is
\* never a member of a `required` list of property names
IndexKey == "<index>"

\* result.push(c)
Push(h, result, c) == HeapSet(h, result.n, IdxStr(ArrayLength(h, result)), c)

\* new Set(value.map(item => JSON.stringify(item))).size !== value.length
HasDuplicates(h, value) ==
  \E i, j \in 0..(ArrayLength(h, value) - 1) :
    i < j /\ Deref(h, getValue(h, value, IdxStr(i))) = Deref(h, getValue(h, value, IdxStr(j)))

\* the `contains` loop of resolveArray from index i; ok tells containsValid
RECURSIVE containsLoop(_, _, _, _, _, _, _)
containsLoop(w, schema, value, parent, key, options, i) ==
  IF w.thrown THEN w
  ELSE IF i >= ArrayLength(w.h, value) THEN Answer(w, FALSE)
  ELSE LET resolved == Await(internalResolveValues(w, schema.contains,
                                                   getValue(w.h, value, IdxStr(i)),
                                                   parent, key, options))
       IN  IF resolved.thrown THEN resolved
           ELSE IF resolved.ok THEN Answer(resolved, TRUE)
           ELSE containsLoop(resolved, schema, value, parent, key, options, i + 1)

resolveArray(w, schema, value, parent, key, options) ==
  LET length == ArrayLength(w.h, value)
      errors1 ==
        When(Has(schema, "minItems") /\ length < schema.minItems,
             "Array length must be >= " \o ToString(schema.minItems))
        \o When(Has(schema, "maxItems") /\ length > schema.maxItems,
                "Array length must be <= " \o ToString(schema.maxItems))
        \o When(Has(schema, "uniqueItems") /\ schema.uniqueItems
                  /\ HasDuplicates(w.h, value),
                "Array items must be unique")
      \* what follows the `contains` loop
      ArrayItems(contained, errors) ==
        IF contained.thrown THEN contained
        ELSE IF Len(errors) > 0 THEN failure(contained, errors)
        ELSE resolveArrayItems(contained, schema, value, parent, key, options)
      Contained(contained) ==
        ArrayItems(contained,
                   errors1 \o When(~contained.ok, "Array must contain at least one matching item"))
  IN  IF ~IsArray(w.h, value)
      THEN IF IsNullish(value)
           THEN IF Has(schema, "default") THEN success(w, schema.default)
                ELSE IF Includes(RequiredOf(parent), key) /\ ~isInsideNegation(w)
                     THEN failure(w, <<Err("Missing required array: " \o key)>>)
                     ELSE success(WithHeap(w, HeapAlloc(w.h, Node(TRUE, <<>>, EmptyVals))),
                                  Ref(Len(w.h) + 1))
           ELSE failure(w, <<Err("Value must be an array")>>)
      ELSE Contained(IF Has(schema, "contains")
                     THEN containsLoop(w, schema, value, parent, key, options, 0)
                     ELSE Answer(w, TRUE))

\* the loop of resolveArrayItems over a list of item schemas, from index i
RECURSIVE tupleLoop(_, _, _, _, _, _, _, _)
tupleLoop(w, schema, values, parent, options, i, errors, result) ==
  IF w.thrown THEN w
  ELSE IF i >= ArrayLength(w.h, values) THEN [w EXCEPT !.errors = errors, !.value = result]
  ELSE LET itemValue == getValue(w.h, values, IdxStr(i))
           additional == Field(schema, "additionalItems", Allow(TRUE))
           itemSchema == IF i < Len(schema.items.of) THEN schema.items.of[i + 1]
                         ELSE additional.schema
           resolved == Await(internalResolveValues(w, itemSchema, itemValue, parent, IndexKey,
                                                   options))
           errors1 == IF resolved.ok THEN errors
                      ELSE errors \o PrefixErrors(resolved.errors, IdxStr(i))
       IN  IF i < Len(schema.items.of)
           THEN IF resolved.thrown THEN resolved
                ELSE tupleLoop(IF resolved.ok
                               THEN WithHeap(resolved, Push(resolved.h, result, resolved.value))
                               ELSE resolved,
                               schema, values, parent, options, i + 1, errors1, result)
           ELSE IF Has(schema, "additionalItems") /\ ~additional.allow
                THEN [w EXCEPT !.errors = errors \o <<Err("Additional items not allowed")>>,
                               !.value = result]
           ELSE IF Has(schema, "additionalItems")
                THEN IF resolved.thrown THEN resolved
                     ELSE tupleLoop(resolved, schema, values, parent, options, i + 1, errors1,
                                    result)
           ELSE tupleLoop(w, schema, values, parent, options, i + 1, errors, result)

\* the loop of resolveArrayItems over prefixItems and a single item schema
RECURSIVE itemsLoop(_, _, _, _, _, _, _, _, _)
itemsLoop(w, schema, values, parent, options, i, maxLength, errors, result) ==
  IF w.thrown THEN w
  ELSE IF i >= maxLength THEN [w EXCEPT !.errors = errors, !.value = result]
  ELSE LET itemValue == getValue(w.h, values, IdxStr(i))
           isPrefix == Has(schema, "prefixItems") /\ i < Len(schema.prefixItems)
           itemSchema == IF isPrefix THEN schema.prefixItems[i + 1] ELSE schema.items.of[1]
           resolved == Await(internalResolveValues(w, itemSchema, itemValue, parent, IndexKey,
                                                   options))
       IN  IF isPrefix \/ Has(schema, "items")
           THEN IF resolved.thrown THEN resolved
                ELSE IF resolved.ok
                THEN itemsLoop(WithHeap(resolved, Push(resolved.h, result, resolved.value)),
                               schema, values, parent, options, i + 1, maxLength, errors, result)
                ELSE itemsLoop(resolved, schema, values, parent, options, i + 1, maxLength,
                               errors \o PrefixErrors(resolved.errors, IdxStr(i)), result)
           ELSE itemsLoop(WithHeap(w, Push(w.h, result, itemValue)), schema, values, parent,
                          options, i + 1, maxLength, errors, result)

resolveArrayItems(w, schema, values, parent, key, options) ==
  LET result == Ref(Len(w.h) + 1)
      w1 == WithHeap(w, HeapAlloc(w.h, Node(TRUE, <<>>, EmptyVals)))
      maxLength == Max(ArrayLength(w.h, values),
                       IF Has(schema, "prefixItems") THEN Len(schema.prefixItems) ELSE 0)
      \* what follows the loop
      Returned(done) ==
        IF done.thrown THEN done
        ELSE IF Len(done.errors) > 0 THEN failure(done, done.errors)
        ELSE success(done, result)
  IN  IF ~Has(schema, "items") /\ ~Has(schema, "prefixItems") THEN success(w, values)
      ELSE Returned(IF Has(schema, "items") /\ schema.items.list
                    THEN tupleLoop(w1, schema, values, parent, options, 0, <<>>, result)
                    ELSE itemsLoop(w1, schema, values, parent, options, 0, maxLength, <<>>,
                                   result))

----------------------------------------------------------------------------
(* SchemaResolver: objects                                                 *)

\* !requiredProps.every(prop => getValue(value, prop) !== undefined)
MissesOne(h, value, requiredProps) ==
  \E i \in 1..Len(requiredProps) : getValue(h, value, requiredProps[i]).k = "undefined"

resolveNotRequired(h, schema, value) ==
  LET notSchemas == IF Has(schema, "allOf")
                    THEN SelectSeq(schema.allOf,
                                   LAMBDA s : Has(s, "not") /\ Has(s["not"], "required"))
                    ELSE <<>>
  IN  IF Len(notSchemas) > 0
      THEN \A i \in 1..Len(notSchemas) : MissesOne(h, value, notSchemas[i]["not"].required)
      ELSE IF Has(schema, "not") /\ Has(schema["not"], "required")
           THEN MissesOne(h, value, schema["not"].required)
           ELSE TRUE

\* the loop over schema.required of resolveObject: <<heap, errors>>
RECURSIVE requiredLoop(_, _, _, _, _)
requiredLoop(h, schema, value, i, errors) ==
  IF i > Len(schema.required) THEN <<h, errors>>
  ELSE LET propKey == schema.required[i]
           hasDefault == HasProp(schema, propKey) /\ Has(PropOf(schema, propKey), "default")
       IN  IF getValue(h, value, propKey).k # "undefined"
           THEN requiredLoop(h, schema, value, i + 1, errors)
           ELSE IF hasDefault
                THEN requiredLoop(HeapSet(h, value.n, propKey, PropOf(schema, propKey).default),
                                  schema, value, i + 1, errors)
                ELSE requiredLoop(h, schema, value, i + 1,
                                  Append(errors, ErrAt("Missing required property: " \o propKey,
                                                       <<propKey>>)))

\* the loop over the names of the properties of the value, from name i
RECURSIVE propertyNamesLoop(_, _, _, _, _, _, _, _)
propertyNamesLoop(w, schema, names, parent, key, options, i, errors) ==
  IF w.thrown THEN w
  ELSE IF i > Len(names) THEN [w EXCEPT !.errors = errors]
  ELSE LET resolved == Await(internalResolveValues(w, schema.propertyNames, Str(names[i]),
                                                   parent, key, options))
       IN  IF resolved.thrown THEN resolved
           ELSE propertyNamesLoop(resolved, schema, names, parent, key, options, i + 1,
                                  IF resolved.ok THEN errors
                                  ELSE errors \o PrefixErrors(resolved.errors, names[i]))

\* resolveObject from the size checks on, for a value that is an object
resolveObjectChecked(w, schema, value, parent, key, options) ==
  LET count == Len(ObjectKeys(w.h, value))
      errors1 ==
        When(Has(schema, "minProperties") /\ count < schema.minProperties,
             "Object must have >= " \o ToString(schema.minProperties) \o " properties")
        \o When(Has(schema, "maxProperties") /\ count > schema.maxProperties,
                "Object must have <= " \o ToString(schema.maxProperties) \o " properties")
      \* the steps that follow the `required` check, each applied to the
      \* outcome of the step before it; the last step is defined first.
      \* resolveObject has no step for `patternProperties` and for
      \* `additionalProperties`: resolvePatternProperties and
      \* resolveAdditionalProperties are never called.
      Returned(conditionalResult) ==
        IF conditionalResult.thrown \/ ~conditionalResult.ok THEN conditionalResult
        ELSE success(conditionalResult, conditionalResult.value)
      Conditional(dependentResult) ==
        IF dependentResult.thrown \/ ~dependentResult.ok THEN dependentResult
        ELSE Returned(IF Has(schema, "if")
                      THEN Await(resolveConditional(dependentResult, schema,
                                                    dependentResult.value, parent, key, options))
                      ELSE dependentResult)
      Dependent(w2) ==
        Conditional(IF Has(schema, "dependentSchemas")
                    THEN Await(resolveDependentSchemas(w2, schema, <<value, w2.value>>, parent,
                                                       key, options))
                    ELSE w2)
      Spread(resolvedProperties) ==
        IF resolvedProperties.thrown \/ ~resolvedProperties.ok THEN resolvedProperties
        ELSE Dependent(IF Has(schema, "properties")
                       THEN success(WithHeap(resolvedProperties,
                                             HeapAlloc(resolvedProperties.h,
                                                       SpreadNode(resolvedProperties.h, value,
                                                                  resolvedProperties.value))),
                                    Ref(Len(resolvedProperties.h) + 1))
                       ELSE resolvedProperties)
      Properties(named) ==
        IF named.thrown THEN named
        ELSE IF Len(named.errors) > 0 THEN failure(named, named.errors)
        ELSE Spread(IF Has(schema, "properties")
                    THEN Await(resolveObjectProperties(named, schema.properties, value, parent,
                                                       key, options))
                    ELSE success(named, value))
      Names(req) ==
        Properties(IF Has(schema, "propertyNames")
                   THEN propertyNamesLoop(WithHeap(w, req[1]), schema, ObjectKeys(req[1], value),
                                          parent, key, options, 1, errors1 \o req[2])
                   ELSE [WithHeap(w, req[1]) EXCEPT !.errors = errors1 \o req[2]])
  IN  Names(IF isInsideNegation(w)
            THEN <<w.h, When(~resolveNotRequired(w.h, schema, value),
                             "Object does not satisfy required property constraints")>>
            ELSE IF Has(schema, "required")
                 THEN requiredLoop(w.h, schema, value, 1, <<>>)
                 ELSE <<w.h, <<>> >>)

resolveObject(w, schema, value, parent, key, options) ==
  IF ~isObject(w.h, value) /\ ~IsNullish(value)
  THEN failure(w, <<Err("Value must be an object")>>)
  ELSE IF ~isObject(w.h, value) /\ Has(schema, "default") THEN success(w, schema.default)
  ELSE IF ~isObject(w.h, value) /\ Includes(RequiredOf(parent), key) /\ ~isInsideNegation(w)
  THEN failure(w, <<Err("Missing required object: " \o key)>>)
  ELSE resolveObjectChecked(
         IF isObject(w.h, value) THEN w
         ELSE WithHeap(w, HeapAlloc(w.h, Node(FALSE, <<>>, EmptyVals))),
         schema,
         IF isObject(w.h, value) THEN value ELSE Ref(Len(w.h) + 1),
         parent, key, options)

\* the loop of resolveObjectProperties from entry i
RECURSIVE objectPropertiesLoop(_, _, _, _, _, _, _, _)
objectPropertiesLoop(w, properties, value, parent, options, i, errors, result) ==
  IF w.thrown THEN w
  ELSE IF i > Len(properties) THEN [w EXCEPT !.errors = errors, !.value = result]
  ELSE LET propKey == properties[i].key
           propSchema == properties[i].schema
           propValue == getValue(w.h, value, propKey)
           resolved == Await(internalResolveValues(w, propSchema, propValue, parent, propKey,
                                                   options))
       IN  IF propValue.k = "undefined" /\ Has(propSchema, "default")
           THEN objectPropertiesLoop(WithHeap(w, HeapSet(w.h, result.n, propKey, propSchema.default)),
                                     properties, value, parent, options, i + 1, errors, result)
           ELSE IF resolved.thrown THEN resolved
           ELSE IF ~resolved.ok
                THEN objectPropertiesLoop(resolved, properties, value, parent, options, i + 1,
                                          errors \o PrefixErrors(resolved.errors, propKey), result)
                ELSE objectPropertiesLoop(WithHeap(resolved,
                                                   HeapSet(resolved.h, result.n, propKey,
                                                           resolved.value)),
                                          properties, value, parent, options, i + 1, errors, result)

\* a variant of resolveObjectProperties that reports the errors of the first
\* failing property only
resolveObjectPropertiesFirstError(w, properties, value, parent, key, options) ==
  LET result == Ref(Len(w.h) + 1)
      w1 == WithHeap(w, HeapAlloc(w.h, Node(FALSE, <<>>, EmptyVals)))
      done == objectPropertiesLoop(w1, properties, value, parent, options, 1, <<>>, result)
  IN  IF done.thrown THEN done
      ELSE IF Len(done.errors) > 0
           THEN failure(done, SelectSeq(done.errors, LAMBDA e : e.path[1] = done.errors[1].path[1]))
           ELSE success(done, result)

resolveObjectProperties(w, properties, value, parent, key, options) ==
  LET result == Ref(Len(w.h) + 1)
      w1 == WithHeap(w, HeapAlloc(w.h, Node(FALSE, <<>>, EmptyVals)))
      done == objectPropertiesLoop(w1, properties, value, parent, options, 1, <<>>, result)
  IN  IF done.thrown THEN done
      ELSE IF Len(done.errors) > 0 THEN failure(done, done.errors)
      ELSE success(done, result)

\* depSchemas.reduce((acc, schema) => mergeSchemas(acc, schema), rest)
RECURSIVE reduceSchemas(_, _, _)
reduceSchemas(acc, entries, i) ==
  IF i > Len(entries) THEN acc
  ELSE reduceSchemas(mergeSchemas(acc, entries[i].schema), entries, i + 1)

\* resolveDependentSchemas(schema, value, result, ...): the two values are
\* passed as the pair <<value, result>>
resolveDependentSchemas(w, schema, pair, parent, key, options) ==
  LET value == pair[1]
      result == pair[2]
      rest == Without(schema, {"dependentSchemas"})
      present == SelectSeq(schema.dependentSchemas,
                           LAMBDA e : getValue(w.h, value, e.key).k # "undefined")
      mergedSchema == reduceSchemas(rest, present, 1)
  IN  IF Len(present) = 0 THEN success(w, result)
      ELSE internalResolveValues(w, mergedSchema, result, parent, key, options)

----------------------------------------------------------------------------
(* SchemaResolver: resolveValue, internalResolveValues, resolveValues      *)

\* schema.default ?? schema.const
DefaultOrConst(schema) ==
  IF Has(schema, "default") /\ schema.default.k # "null" THEN schema.default
  ELSE IF Has(schema, "const") THEN schema.const
  ELSE Undefined

\* a variant of missingProps that stops at the first missing property
\* (`find` in place of `filter`)
missingPropsFirst(h, schema, value) ==
  LET missing == SelectSeq(schema.required,
                           LAMBDA prop : getValue(h, value, prop).k = "undefined"
                                         /\ ~(HasProp(schema, prop)
                                              /\ Has(PropOf(schema, prop), "default")))
  IN  IF missing = <<>> THEN <<>> ELSE <<missing[1]>>

\* the required properties that are missing and have no default
missingProps(h, schema, value) ==
  SelectSeq(schema.required,
            LAMBDA prop : getValue(h, value, prop).k = "undefined"
                          /\ ~(HasProp(schema, prop) /\ Has(PropOf(schema, prop), "default")))

resolveValue(w, schema, value, parent, key, options) ==
  IF Has(schema, "allOf") /\ Len(schema.allOf) = 1
  THEN internalResolveValues(w, mergeSchemas(Without(schema, {"allOf"}), schema.allOf[1]),
                             value, parent, key, options)
  ELSE IF Has(schema, "anyOf") /\ Len(schema.anyOf) = 1
  THEN internalResolveValues(w, mergeSchemas(Without(schema, {"anyOf"}), schema.anyOf[1]),
                             value, parent, key, options)
  ELSE IF Has(schema, "oneOf") /\ Len(schema.oneOf) = 1
  THEN internalResolveValues(w, mergeSchemas(Without(schema, {"oneOf"}), schema.oneOf[1]),
                             value, parent, key, options)
  ELSE IF Has(schema, "oneOf") \/ Has(schema, "anyOf") \/ Has(schema, "allOf")
  THEN resolveComposition(w, schema, value, parent, key, options)
  ELSE IF IsNullish(value)
  THEN IF DefaultOrConst(schema).k # "undefined" THEN success(w, DefaultOrConst(schema))
       ELSE IF Includes(RequiredOf(parent), key) /\ ~isInsideNegation(w)
            THEN failure(w, <<>>)
            ELSE success(w, value)
  ELSE IF Has(schema, "not") /\ ~options.skipValidation
  THEN Await(resolveNot(w, schema, value, parent, key, options))
  ELSE LET errors ==
             When(Has(schema, "const") /\ ~StrictEq(value, schema.const),
                  "Value must be " \o JSString(w.h, schema.const))
             \o When(Has(schema, "enum") /\ ~Includes(schema.enum, value),
                     "Value must be one of: " \o JoinValues(w.h, schema.enum))
           missing == IF Has(schema, "required") /\ Len(schema.required) > 0
                         /\ ~options.skipValidation
                      THEN missingProps(w.h, schema, value)
                      ELSE <<>>
       IN  IF Len(missing) > 0
           THEN failure(w, [i \in 1..Len(missing) |->
                              Err("Missing required property: " \o missing[i])])
           ELSE IF Len(errors) > 0 THEN failure(w, errors)
           ELSE success(w, value)

\* the switch on schema.type
resolveType(w, schema, result, parent, key, options) ==
  LET type == schema.type.of[1] IN
  CASE type = "null" -> resolveNull(w, schema, result, parent, key)
    [] type = "array" -> resolveArray(w, schema, result, parent, key, options)
    [] type = "boolean" -> resolveBoolean(w, schema, result, parent, key)
    [] type = "integer" -> resolveInteger(w, schema, result, parent, key)
    [] type = "number" -> resolveNumber(w, schema, result, parent, key)
    [] type = "object" -> resolveObject(w, schema, result, parent, key, options)
    [] type = "string" -> resolveString(w, schema, result, parent, key)
    [] OTHER -> failure(w, <<Err("Unsupported type: " \o type)>>)

\* the end of internalResolveValues, from `if (!schema.type)`
resolveTyped(w, schema, result, parent, key, options) ==
  IF ~Has(schema, "type") THEN success(w, result)
  ELSE IF schema.type.list
  THEN LET valueType == getValueType(w.h, result, schema.type.of)
       IN  IF valueType = "undefined"
           THEN failure(w, <<Err("Value must be one of type: " \o JoinNames(schema.type.of))>>)
           ELSE internalResolveValues(w, filterProps([schema EXCEPT !.type = Type(valueType)],
                                                     valueType),
                                      result, parent, key, options)
  ELSE resolveType(w, schema, result, parent, key, options)

\* the calls that internalResolveValues makes one after the other, by the
\* place of the call; "negated" is resolveNot after its first statement,
\* which has raised negationDepth
RECURSIVE resolveStep(_, _, _, _, _, _, _)
resolveStep(pc, w, schema, result, parent, key, options) ==
  CASE pc = "value" -> Await(resolveValue(w, schema, result, parent, key, options))
    [] pc = "conditional" -> Await(resolveConditional(w, schema, result, parent, key, options))
    [] pc = "composition" -> Await(resolveComposition(w, schema, result, parent, key, options))
    [] pc = "negated" -> Await(resolveNot([w EXCEPT !.nd = @ - 1], schema, result,
                                          parent, key, options))
    [] pc = "type" -> resolveTyped(w, schema, result, parent, key, options)

\* the place of the call after the one at pc
AfterStep(pc) ==
  CASE pc = "value" -> "conditional"
    [] pc = "conditional" -> "composition"
    [] pc = "composition" -> "type"
    [] OTHER -> "done"

\* the condition under which internalResolveValues makes the call at pc
StepApplies(pc, h, schema, result) ==
  CASE pc = "conditional" -> result.k = "ref" /\ Has(schema, "if")
    [] pc = "composition" -> isObject(h, result) /\ isComposition(schema)
    [] OTHER -> TRUE

\* internalResolveValues from the call at pc on: a step that is not ok is
\* returned, the value of a step that is ok is handed to the next one
RECURSIVE resolveFrom(_, _, _, _, _, _, _)
resolveFrom(pc, w, schema, result, parent, key, options) ==
  LET Then(stepResult) ==
        IF stepResult.thrown \/ ~stepResult.ok \/ pc = "type" THEN stepResult
        ELSE resolveFrom(AfterStep(pc), stepResult, schema, stepResult.value,
                         parent, key, options)
  IN  Then(IF StepApplies(pc, w.h, schema, result)
           THEN resolveStep(pc, w, schema, result, parent, key, options)
           ELSE w)

internalResolveValues(w, schema, value, parent, key, options) ==
  IF w.thrown THEN w
  ELSE Returns(w, resolveFrom("value", Enters(w, schema), schema, value, parent, key,
                              options))

\* resolveValues(schema, values): the world after the call, with the
\* Success or Failure returned in ok, value and errors
resolveValues(h, schema, values) ==
  internalResolveValues(World(h), schema, values, schema, NoKey, NoOptions)

----------------------------------------------------------------------------
(* mergeSchemas with options (the copy of merge.ts in src/unnamed/part_007) *)

\* the options argument of mergeSchemas
MergeOptions(mergeType, isAllOf) == [mergeType |-> mergeType, isAllOf |-> isAllOf]
NoMergeOptions == MergeOptions(FALSE, FALSE)

\* [].concat(schema.type || [])
TypeList(schema) == IF Has(schema, "type") THEN schema.type.of ELSE <<>>

hasNumberTypes(types) == \E i \in 1..Len(types) : types[i] \in {"number", "integer"}

\* the merged type in the field type, or the errors in the field errors
mergeTypes(schema1, schema2, options) ==
  LET types1 == TypeList(schema1)
      types2 == TypeList(schema2)
      common == SelectSeq(types1, LAMBDA t : Includes(types2, t))
      noErrors(type) == [errors |-> <<>>, type |-> type]
  IN  IF options.isAllOf
      THEN IF Len(common) = 1 THEN noErrors(Type(common[1]))
           ELSE IF Len(common) = 0
                THEN IF hasNumberTypes(types1) /\ hasNumberTypes(types2)
                     THEN noErrors(Type("integer"))
                     ELSE [errors |-> <<ErrAt("No valid types satisfy both schemas",
                                              <<"merge">>)>>,
                           type |-> Types(<<>>)]
                ELSE noErrors(Types(common))
      ELSE noErrors(Types(mergeArrays(types1, types2)))

\* [].concat(schema.const) and [].concat(schema.enum): a missing keyword is
\* the one-element list [undefined]
ConstList(schema) == IF Has(schema, "const") THEN <<schema.const>> ELSE <<Undefined>>
EnumList(schema) == IF Has(schema, "enum") THEN schema.enum ELSE <<Undefined>>

\* isSameConst(value1, value2), for v1 = [].concat(value1), v2 = [].concat(value2)
isSameConst(v1, v2) == Len(v1) = 1 /\ Len(v2) = 1 /\ StrictEq(v1[1], v2[1])

\* [].concat(schema1.const || schema2.const || schema1.enum || schema2.enum)
FirstTruthy(schema1, schema2) ==
  IF Has(schema1, "const") /\ Truthy(schema1.const) THEN <<schema1.const>>
  ELSE IF Has(schema2, "const") /\ Truthy(schema2.const) THEN <<schema2.const>>
  ELSE IF Has(schema1, "enum") THEN schema1.enum
  ELSE EnumList(schema2)

RECURSIVE mergeSchemasOptions(_, _, _)
mergeSchemasOptions(schema1, schema2, options) ==
  LET merge(a, b) == mergeSchemasOptions(a, b, NoMergeOptions)
      spread(kw) == IF Has(schema2, kw) THEN schema2[kw] ELSE schema1[kw]
      retyped == options.mergeType /\ Has(schema1, "type") /\ Has(schema2, "type")
                 /\ (schema1.type.list \/ schema2.type.list \/ schema1.type # schema2.type)
      type == mergeTypes(schema1, schema2, options)
      pinning == Has(schema1, "enum") \/ Has(schema2, "enum")
                 \/ (Has(schema1, "const") /\ Truthy(schema1.const))
                 \/ (Has(schema2, "const") /\ Truthy(schema2.const))
      same == pinning /\ (isSameConst(ConstList(schema1), EnumList(schema2))
                          \/ isSameConst(ConstList(schema2), EnumList(schema1)))
      value == FirstTruthy(schema1, schema2)
      keys == (((DOMAIN schema1) \cup (DOMAIN schema2))
               \cup (IF same THEN {"const"} ELSE {})
               \cup (IF pinning /\ ~same THEN {"enum"} ELSE {}))
              \ (IF same THEN {"enum"} ELSE {})
      result ==
        [kw \in keys |->
           CASE kw = "type" -> IF retyped THEN type.type ELSE spread(kw)
             [] kw = "const" ->
                  IF same THEN (IF value = <<>> THEN Undefined ELSE value[1])
                  ELSE IF pinning THEN spread(kw)
                  ELSE Coalesce(Has(schema2, kw), Field(schema2, kw, Undefined),
                                Has(schema1, kw), Field(schema1, kw, Undefined))
             [] kw = "enum" -> mergeArrays(Field(schema1, kw, <<>>), Field(schema2, kw, <<>>))
             [] kw = "items" ->
                  IF Has(schema2, kw)
                  THEN IF Has(schema1, kw)
                       THEN Items(merge(ItemsSchema(schema1.items), ItemsSchema(schema2.items)))
                       ELSE schema2.items
                  ELSE schema1.items
             [] kw = "required" ->
                  mergeArrays(Field(schema1, kw, <<>>), Field(schema2, kw, <<>>))
             [] kw = "properties" ->
                  LET p1 == Field(schema1, kw, <<>>)
                      p2 == Field(schema2, kw, <<>>)
                      names == MapKeys(p1, p2)
                  IN  [i \in 1..Len(names) |->
                         P(names[i],
                           IF MapHas(p1, names[i]) /\ MapHas(p2, names[i])
                           THEN merge(MapGet(p1, names[i]), MapGet(p2, names[i]))
                           ELSE IF MapHas(p2, names[i]) THEN MapGet(p2, names[i])
                                ELSE MapGet(p1, names[i]))]
             [] kw \in {"patternProperties", "dependentSchemas"} ->
                  deepMergeMap(Field(schema1, kw, <<>>), Field(schema2, kw, <<>>))
             [] kw = "additionalProperties" ->
                  IF Has(schema1, kw) /\ Has(schema2, kw)
                     /\ schema1[kw].isSchema /\ schema2[kw].isSchema
                  THEN Sub(merge(schema1[kw].schema, schema2[kw].schema))
                  ELSE spread(kw)
             [] kw = "not" ->
                  merge(Field(schema1, kw, EmptySchema), Field(schema2, kw, EmptySchema))
             [] kw \in {"allOf", "anyOf", "oneOf"} ->
                  mergeSchemaArrays(Field(schema1, kw, <<>>), Field(schema2, kw, <<>>))
             [] OTHER -> spread(kw)]
  IN  IF retyped /\ type.errors # <<>> THEN [errors |-> type.errors]
      ELSE \* Object.fromEntries(... value !== undefined)
           [kw \in {kk \in keys : kk = "const" => result[kk] # Undefined} |-> result[kw]]

----------------------------------------------------------------------------
(* The resolver that keeps a path stack (class SchemaResolver of           *)
(* src/unnamed/part_002, lines 29-1266).  It differs from resolve.ts in    *)
(* that failure() prefixes each error with the stack and collects it in    *)
(* this.errors, and in that resolveValues returns the collected errors     *)
(* after removing duplicates.  It is modelled for schemas over the         *)
(* keywords type (a single name other than "array"), properties, required, *)
(* default, const, enum, the numeric and string checks, anyOf and oneOf,   *)
(* and a single-member allOf; negationDepth stays 0 on these schemas.      *)
(* A world of this resolver has the fields h (heap), stack (this.stack),   *)
(* all (this.errors), resolvedType (this.resolvedType), balanced (every    *)
(* step so far has left the stack as it found it), thrown, and the fields  *)
(* ok, value, errors of the Success or Failure that the last call returned.*)

RECURSIVE internalResolveValuesPath(_, _, _, _, _)

PathWorld(h) ==
  [h |-> h, stack |-> <<>>, all |-> <<>>, resolvedType |-> FALSE, balanced |-> TRUE,
   thrown |-> FALSE, ok |-> TRUE, value |-> Undefined, errors |-> <<>>]

\* this.stack.push(key)
stackPush(w, key) == [w EXCEPT !.stack = Append(@, key)]

\* this.stack.pop(); on an empty stack it does nothing
stackPop(w) ==
  [w EXCEPT !.stack = IF @ = <<>> THEN <<>> ELSE SubSeq(@, 1, Len(@) - 1)]

\* the step that ended in the world `exit` had started in the world `entry`
Leaves(entry, exit) ==
  [exit EXCEPT !.balanced = @ /\ (exit.thrown \/ exit.stack = entry.stack)]

isInside(w, keys) == \E i \in 1..Len(w.stack) : w.stack[i] \in keys

successPath(w, value) == [w EXCEPT !.ok = TRUE, !.value = value, !.errors = <<>>]

failurePath(w, errors) ==
  LET errorsWithPath ==
        [i \in 1..Len(errors) |-> ErrAt(errors[i].message, w.stack \o errors[i].path)]
  IN  [w EXCEPT !.ok = FALSE, !.value = Undefined, !.errors = errorsWithPath,
                !.all = @ \o (IF ~isInside(w, {"if", "contains", "oneOf"})
                              THEN errorsWithPath ELSE <<>>)
                          \o (IF isInside(w, {"oneOf"}) /\ w.stack = <<"oneOf">>
                              THEN errorsWithPath ELSE <<>>)]

\* a TypeError propagates to the caller of resolveValues
ThrowPath(w) == [w EXCEPT !.thrown = TRUE, !.ok = FALSE, !.value = Undefined, !.errors = <<>>]

\* the Success or Failure `r` of a resolver of a primitive type, returned in
\* the world w: the Failure is built by failurePath
Adopt(w, r) == IF r.ok THEN successPath(w, r.value) ELSE failurePath(w, r.errors)

\* resolveNumber returns a missing value as it is
resolveNumberPath(plain, schema, value, parent, key) ==
  IF IsNullish(value) /\ ~Has(schema, "default") /\ ~Includes(RequiredOf(parent), key)
  THEN success(plain, value)
  ELSE resolveNumber(plain, schema, value, parent, key)

\* the loop of resolveObjectProperties from entry i
RECURSIVE objectPropertiesLoopPath(_, _, _, _, _, _, _)
objectPropertiesLoopPath(w, properties, value, parent, i, errors, result) ==
  LET propKey == properties[i].key
      propSchema == properties[i].schema
      propValue == getValue(w.h, value, propKey)
      Resolved(resolved) ==
        IF resolved.thrown THEN resolved
        ELSE objectPropertiesLoopPath(
               IF resolved.ok /\ resolved.value.k # "undefined"
               THEN WithHeap(resolved, HeapSet(resolved.h, result.n, propKey, resolved.value))
               ELSE resolved,
               properties, value, parent, i + 1,
               IF resolved.ok THEN errors ELSE errors \o resolved.errors, result)
  IN  IF w.thrown THEN w
      ELSE IF i > Len(properties) THEN [w EXCEPT !.errors = errors, !.value = result]
      ELSE Resolved(stackPop(internalResolveValuesPath(
                      stackPush(IF propValue.k = "undefined" /\ Has(propSchema, "default")
                                THEN WithHeap(w, HeapSet(w.h, result.n, propKey,
                                                         propSchema.default))
                                ELSE w,
                                propKey),
                      propSchema, propValue, parent, propKey)))

resolveObjectPropertiesPath(w, properties, value, parent, key) ==
  LET result == Ref(Len(w.h) + 1)
      Done(done) ==
        IF done.thrown THEN done
        ELSE IF Len(done.errors) > 0 THEN failurePath(done, done.errors)
        ELSE successPath(done, result)
  IN  Done(objectPropertiesLoopPath(WithHeap(w, HeapAlloc(w.h, Node(FALSE, <<>>, EmptyVals))),
                                    properties, value, parent, 1, <<>>, result))

\* resolveObject: the `required` check (with value[propKey] = defaultValue,
\* a TypeError on a value that is not an object), the properties, and the
\* check of the type of the value at the end
resolveObjectPath(w, schema, value, parent, key) ==
  LET req == IF Has(schema, "required")
             THEN requiredLoop(w.h, schema, value, 1, <<>>)
             ELSE <<w.h, <<>> >>
      throws == Has(schema, "required") /\ value.k # "ref"
                /\ \E i \in 1..Len(schema.required) :
                     HasProp(schema, schema.required[i])
                     /\ Has(PropOf(schema, schema.required[i]), "default")
      \* { ...result, ...resolvedProperties.value }
      Checked(spread, result) ==
        IF isObject(spread.h, result) \/ IsNullish(result)
        THEN IF IsNullish(result) /\ Has(schema, "default")
             THEN successPath(spread, schema.default)
             ELSE IF IsNullish(result) /\ Includes(RequiredOf(parent), key)
                  THEN failurePath(spread, <<Err("Missing required object: " \o key)>>)
                  ELSE successPath(spread, result)
        ELSE failurePath(spread, <<Err("Value must be an object")>>)
      Properties(resolvedProperties) ==
        IF resolvedProperties.thrown \/ ~resolvedProperties.ok THEN resolvedProperties
        ELSE Checked(WithHeap(resolvedProperties,
                              HeapAlloc(resolvedProperties.h,
                                        SpreadNode(resolvedProperties.h, value,
                                                   resolvedProperties.value))),
                     Ref(Len(resolvedProperties.h) + 1))
  IN  IF throws THEN ThrowPath(w)
      ELSE IF Len(req[2]) > 0 THEN failurePath(WithHeap(w, req[1]), req[2])
      ELSE IF Has(schema, "properties")
           THEN Properties(Leaves(w, resolveObjectPropertiesPath(WithHeap(w, req[1]),
                                                                 schema.properties, value,
                                                                 parent, key)))
           ELSE Checked(WithHeap(w, req[1]), value)

\* the switch on schema.type of the closure resolveType
resolveTypePath(w, schema, result, parent, key) ==
  LET typed == [w EXCEPT !.resolvedType = TRUE]
      plain == World(w.h)
      type == IF Has(schema, "type") THEN schema.type.of[1] ELSE "undefined"
  IN  CASE type = "null" -> Adopt(typed, resolveNull(plain, schema, result, parent, key))
        [] type = "boolean" -> Adopt(typed, resolveBoolean(plain, schema, result, parent, key))
        [] type = "integer" -> Adopt(typed, resolveInteger(plain, schema, result, parent, key))
        [] type = "number" -> Adopt(typed, resolveNumberPath(plain, schema, result, parent, key))
        [] type = "object" -> resolveObjectPath(typed, schema, result, parent, key)
        [] type = "string" -> Adopt(typed, resolveString(plain, schema, result, parent, key))
        [] OTHER -> failurePath(typed, <<Err("Unsupported type: " \o type)>>)

\* the loop of resolveAnyOf from branch i
RECURSIVE anyOfLoopPath(_, _, _, _, _, _)
anyOfLoopPath(w, schema, rest, value, parent, i) ==
  LET Checked(resolved) ==
        IF resolved.thrown THEN resolved
        ELSE IF resolved.ok THEN successPath(resolved, value)
        ELSE anyOfLoopPath(resolved, schema, rest, value, parent, i + 1)
  IN  IF i > Len(schema.anyOf)
      THEN IF Has(schema, "default") THEN successPath(w, schema.default)
           ELSE failurePath(w, <<Err("Value must match at least one schema in anyOf")>>)
      ELSE Checked(internalResolveValuesPath(
                     w, mergeSchemasOptions(schema.anyOf[i], rest, NoMergeOptions),
                     value, parent, "anyOf"))

resolveAnyOfPath(w, schema, value, parent, key) ==
  anyOfLoopPath(w, schema, Without(schema, {"anyOf"}), value, parent, 1)

\* the loop of resolveOneOf from branch i: the world after the last branch,
\* with the results of the branches in the field candidates
RECURSIVE oneOfLoopPath(_, _, _, _, _, _, _, _)
oneOfLoopPath(w, schema, rest, value, parent, key, i, candidates) ==
  LET Pushed(resolved) ==
        IF resolved.thrown THEN [world |-> resolved, candidates |-> candidates]
        ELSE oneOfLoopPath(resolved, schema, rest, value, parent, key, i + 1,
                           Append(candidates,
                                  [ok |-> resolved.ok, value |-> resolved.value,
                                   errors |-> resolved.errors, schema |-> schema.oneOf[i]]))
  IN  IF i > Len(schema.oneOf) THEN [world |-> w, candidates |-> candidates]
      ELSE Pushed(internalResolveValuesPath(
                    w, mergeSchemasOptions(schema.oneOf[i], rest, NoMergeOptions),
                    value, parent, key))

\* the candidate whose schema declares a property that the value has
Declaring(h, value, candidates) ==
  SelectSeq(candidates,
            LAMBDA c : \E j \in 1..Len(ObjectKeys(h, value)) :
                         HasProp(c.schema, ObjectKeys(h, value)[j]))

resolveOneOfPath(w, schema, value, parent, key) ==
  LET Returned(c, world) == [world EXCEPT !.ok = c.ok, !.value = c.value, !.errors = c.errors]
      generic == <<Err("Value must match exactly one schema in oneOf")>>
      Matched(loop) ==
        LET matches == SelectSeq(loop.candidates, LAMBDA c : c.ok)
            declaring == Declaring(loop.world.h, value, loop.candidates)
        IN  IF loop.world.thrown THEN loop.world
            ELSE IF Len(matches) = 1 THEN Returned(matches[1], loop.world)
            ELSE IF Len(matches) = 0
                 THEN IF Len(declaring) > 0 THEN Returned(declaring[1], loop.world)
                      ELSE failurePath(loop.world, generic)
            ELSE IF Has(schema, "default") THEN successPath(loop.world, schema.default)
            ELSE failurePath(loop.world, generic)
  IN  Matched(oneOfLoopPath(w, schema, Without(schema, {"oneOf"}), value, parent, key, 1, <<>>))

resolveCompositionPath(w, schema, value, parent, key) ==
  IF Has(schema, "anyOf")
  THEN stackPop(resolveAnyOfPath(stackPush(w, "anyOf"), schema, value, parent, key))
  ELSE IF Has(schema, "oneOf")
  THEN stackPop(resolveOneOfPath(stackPush(w, "oneOf"), schema, value, parent, key))
  ELSE successPath(w, value)

\* the member that resolveValue merges into the rest of the schema when a
\* composition has one member, as <<keyword>>; <<>> if there is none
SingleMember(schema) ==
  SelectSeq(<<"allOf", "anyOf", "oneOf">>, LAMBDA kw : Has(schema, kw) /\ Len(schema[kw]) = 1)

resolveValuePath(w, schema, value, parent, key) ==
  LET single == SingleMember(schema)
      errors ==
        When(Has(schema, "const") /\ Truthy(schema.const) /\ ~StrictEq(value, schema.const),
             "Value must be " \o JSString(w.h, schema.const))
        \o When(Has(schema, "enum") /\ ~Includes(schema.enum, value),
                "Value must be one of: " \o JoinValues(w.h, schema.enum))
      missing == IF Has(schema, "required") /\ Len(schema.required) > 0
                 THEN missingProps(w.h, schema, value)
                 ELSE <<>>
  IN  IF Len(single) > 0
      THEN internalResolveValuesPath(
             w, mergeSchemasOptions(Without(schema, {single[1]}), schema[single[1]][1],
                                    NoMergeOptions),
             value, parent, key)
      ELSE IF Has(schema, "oneOf") \/ Has(schema, "anyOf")
      THEN resolveCompositionPath(w, schema, value, parent, key)
      ELSE IF IsNullish(value)
      THEN IF DefaultOrConst(schema).k # "undefined" THEN successPath(w, DefaultOrConst(schema))
           ELSE IF Includes(RequiredOf(parent), key)
                THEN stackPop(failurePath(w, <<Err("Missing required value: " \o key)>>))
                ELSE successPath(w, value)
      ELSE IF Len(missing) > 0
      THEN [failurePath([w EXCEPT !.stack = @ \o missing],
                        [i \in 1..Len(missing) |->
                           Err("Missing required property: " \o missing[i])])
              EXCEPT !.stack = w.stack]
      ELSE IF Len(errors) > 0
      THEN IF key # NoKey THEN stackPop(failurePath(stackPush(w, key), errors))
           ELSE failurePath(w, errors)
      ELSE successPath(w, value)

internalResolveValuesPath(w, schema, value, parent, key) ==
  LET \* the Failure of resolveValue is returned after resolveType has run
      Kept(valueResult, typed) ==
        IF typed.thrown THEN typed
        ELSE [typed EXCEPT !.ok = FALSE, !.value = Undefined, !.errors = valueResult.errors]
      Typed(compositionResult) ==
        IF compositionResult.thrown \/ ~compositionResult.ok THEN compositionResult
        ELSE IF ~Has(schema, "type")
             THEN successPath(compositionResult, compositionResult.value)
             ELSE resolveTypePath(compositionResult, schema, compositionResult.value,
                                  parent, key)
      Composed(valueResult) ==
        IF valueResult.thrown THEN valueResult
        ELSE IF ~valueResult.ok
             THEN IF ~valueResult.resolvedType /\ ~isInside(valueResult, {"not"})
                  THEN Kept(valueResult, resolveTypePath(valueResult, schema, value, parent, key))
                  ELSE valueResult
        ELSE Typed(IF isObject(valueResult.h, valueResult.value) /\ isComposition(schema)
                   THEN Leaves(valueResult,
                               resolveCompositionPath(valueResult, schema, valueResult.value,
                                                      parent, key))
                   ELSE valueResult)
  IN  IF w.thrown THEN w
      ELSE Composed(Leaves(w, resolveValuePath(w, schema, value, parent, key)))

\* the loop over this.errors of resolveValues: the first record of each message
dedupeByMessageLast(errors) ==
  SelectSeq([i \in 1..Len(errors) |->
               [e |-> errors[i],
                keep |-> \A j \in (i + 1)..Len(errors) : errors[j].message # errors[i].message]],
            LAMBDA x : x.keep)

dedupeByMessage(errors) ==
  SelectSeq([i \in 1..Len(errors) |->
               [e |-> errors[i],
                keep |-> \A j \in 1..(i - 1) : errors[j].message # errors[i].message]],
            LAMBDA x : x.keep)

\* error.message.startsWith('Missing required')
isRequiredError(error) ==
  Len(error.message) >= 16 /\ SubSeq(error.message, 1, 16) = "Missing required"

isDisposableError(error) == error.path = <<"oneOf">> \/ isRequiredError(error)

\* the errors that resolveValues returns for the collected errors
reportedErrors(all) ==
  LET deduped == dedupeByMessage(all)
      errors == [i \in 1..Len(deduped) |-> deduped[i].e]
      kept(e) == (Len(e.path) > 1 /\ ~Includes(e.path, "oneOf")) \/ ~isDisposableError(e)
  IN  IF Len(errors) > 1 /\ (\E i \in 1..Len(errors) : isDisposableError(errors[i]))
         /\ (\E i \in 1..Len(errors) : kept(errors[i]))
      THEN SelectSeq(errors, kept)
      ELSE errors

\* resolveValues(schema, values) of the class with the path stack: the world
\* after the call, with the Success or Failure returned in ok, value, errors
resolveValuesPath(h, schema, values) ==
  LET Returned(done) ==
        IF done.thrown \/ done.ok THEN done
        ELSE [done EXCEPT !.errors = reportedErrors(done.all)]
  IN  Returned(internalResolveValuesPath(PathWorld(h), schema, values, schema, NoKey))

----------------------------------------------------------------------------
(* validate.ts (src/unnamed/part_004): validateValue reads the value and   *)
(* returns a list of errors; it changes nothing.                           *)

\* the options validateValue reads
ProbeOptions(skipConditional, currentPath) ==
  [skipConditional |-> skipConditional, currentPath |-> currentPath]
NoProbeOptions == ProbeOptions(FALSE, <<>>)

createError(path, message) == ErrAt(message, path)

\* one error if the condition holds
ErrorIf(cond, path, message) == IF cond THEN <<createError(path, message)>> ELSE <<>>

\* errors.push(...list) for each list in turn
RECURSIVE Flatten(_)
Flatten(lists) == IF lists = <<>> THEN <<>> ELSE Head(lists) \o Flatten(Tail(lists))

\* value.hasOwnProperty(key)
hasOwnProperty(h, value, key) == Includes(ObjectKeys(h, value), key)

\* the name of a format in the message of validateFormat
FormatName(format) ==
  CASE format = "ipv4" -> "IPv4"
    [] format = "uuid" -> "UUID"
    [] OTHER -> format

validateFormat(value, format, path) ==
  ErrorIf(~isValidFormat(value.s, format), path, "Invalid " \o FormatName(format) \o " format")

validateString(value, schema, path) ==
  IF value.k # "string" THEN <<createError(path, "Value must be a string")>>
  ELSE ErrorIf(Has(schema, "minLength") /\ Len(value.s) < schema.minLength, path,
               "String length must be >= " \o ToString(schema.minLength))
       \o ErrorIf(Has(schema, "maxLength") /\ Len(value.s) > schema.maxLength, path,
                  "String length must be <= " \o ToString(schema.maxLength))
       \o ErrorIf(Has(schema, "pattern") /\ ~RegExpTest(schema.pattern, value.s), path,
                  "String must match pattern: " \o Field(schema, "pattern", ""))
       \o (IF Has(schema, "format") /\ schema.format # ""
           THEN validateFormat(value, schema.format, path)
           ELSE <<>>)

validateNumber(h, value, schema, path) ==
  IF value.k # "number" THEN <<createError(path, "Value must be a number")>>
  ELSE ErrorIf(TypeIs(schema, "integer") /\ ~IsInteger(value), path,
               "Value must be an integer")
       \o ErrorIf(Has(schema, "minimum") /\ JSLess(h, value, schema.minimum), path,
                  "Value must be >= " \o ToString(Field(schema, "minimum", 0)))
       \o ErrorIf(Has(schema, "maximum") /\ JSGreater(h, value, schema.maximum), path,
                  "Value must be <= " \o ToString(Field(schema, "maximum", 0)))
       \o ErrorIf(Has(schema, "exclusiveMinimum")
                    /\ JSLessEq(h, value, schema.exclusiveMinimum), path,
                  "Value must be > " \o ToString(Field(schema, "exclusiveMinimum", 0)))
       \o ErrorIf(Has(schema, "exclusiveMaximum")
                    /\ JSGreaterEq(h, value, schema.exclusiveMaximum), path,
                  "Value must be < " \o ToString(Field(schema, "exclusiveMaximum", 0)))
       \o ErrorIf(Has(schema, "multipleOf") /\ NotMultipleOf(h, value, schema.multipleOf), path,
                  "Value must be multiple of " \o ToString(Field(schema, "multipleOf", 0)))

RECURSIVE validateValue(_, _, _, _)
RECURSIVE validateArray(_, _, _, _)
RECURSIVE validateObject(_, _, _, _)
RECURSIVE evaluateConditionProbe(_, _, _, _)

\* the item of an array with the options of its validation
ItemAt(h, value, i) == getValue(h, value, IdxStr(i - 1))
AtPath(options, key) == [options EXCEPT !.currentPath = options.currentPath \o <<key>>]

validateArray(h, value, schema, options) ==
  IF ~IsArray(h, value) THEN <<createError(options.currentPath, "Value must be an array")>>
  ELSE ErrorIf(Has(schema, "minItems") /\ ArrayLength(h, value) < schema.minItems,
               options.currentPath,
               "Array length must be >= " \o ToString(Field(schema, "minItems", 0)))
       \o ErrorIf(Has(schema, "maxItems") /\ ArrayLength(h, value) > schema.maxItems,
                  options.currentPath,
                  "Array length must be <= " \o ToString(Field(schema, "maxItems", 0)))
       \o (IF Has(schema, "uniqueItems") /\ schema.uniqueItems
           THEN Flatten([i \in 1..ArrayLength(h, value) |->
                           ErrorIf(\E j \in 1..(i - 1) :
                                     Deref(h, ItemAt(h, value, j)) = Deref(h, ItemAt(h, value, i)),
                                   options.currentPath \o <<IdxStr(i - 1)>>,
                                   "Duplicate items not allowed")])
           ELSE <<>>)
       \o ErrorIf(Has(schema, "contains")
                    /\ \A i \in 1..ArrayLength(h, value) :
                         validateValue(h, ItemAt(h, value, i), schema.contains,
                                       AtPath(options, IdxStr(i - 1))) # <<>>,
                  options.currentPath, "Array must contain at least one matching item")
       \o (IF Has(schema, "prefixItems")
           THEN Flatten([i \in 1..Min(Len(schema.prefixItems), ArrayLength(h, value)) |->
                           validateValue(h, ItemAt(h, value, i), schema.prefixItems[i],
                                         AtPath(options, IdxStr(i - 1)))])
           ELSE IF Has(schema, "items")
                THEN Flatten([i \in 1..ArrayLength(h, value) |->
                                validateValue(h, ItemAt(h, value, i), ItemsSchema(schema.items),
                                              AtPath(options, IdxStr(i - 1)))])
                ELSE <<>>)

validateObject(h, value, schema, options) ==
  IF ~isObject(h, value) THEN <<createError(options.currentPath, "Value must be an object")>>
  ELSE ErrorIf(Has(schema, "minProperties")
                 /\ Len(ObjectKeys(h, value)) < schema.minProperties,
               options.currentPath,
               "Object must have >= " \o ToString(Field(schema, "minProperties", 0))
                 \o " properties")
       \o ErrorIf(Has(schema, "maxProperties")
                    /\ Len(ObjectKeys(h, value)) > schema.maxProperties,
                  options.currentPath,
                  "Object must have <= " \o ToString(Field(schema, "maxProperties", 0))
                    \o " properties")
       \o Flatten([i \in 1..Len(RequiredOf(schema)) |->
                     ErrorIf(~hasOwnProperty(h, value, schema.required[i]), options.currentPath,
                             "Missing required property: " \o schema.required[i])])
       \o (IF Has(schema, "propertyNames")
           THEN Flatten([i \in 1..Len(ObjectKeys(h, value)) |->
                           validateValue(h, Str(ObjectKeys(h, value)[i]), schema.propertyNames,
                                         AtPath(options, ObjectKeys(h, value)[i]))])
           ELSE <<>>)
       \o Flatten([i \in 1..Len(Field(schema, "properties", <<>>)) |->
                     IF hasOwnProperty(h, value, schema.properties[i].key)
                     THEN validateValue(h, getValue(h, value, schema.properties[i].key),
                                        schema.properties[i].schema,
                                        AtPath(options, schema.properties[i].key))
                     ELSE <<>>])
       \o Flatten([i \in 1..Len(Field(schema, "patternProperties", <<>>)) |->
                     Flatten([j \in 1..Len(ObjectKeys(h, value)) |->
                                IF RegExpTest(schema.patternProperties[i].key,
                                              ObjectKeys(h, value)[j])
                                THEN validateValue(h, getValue(h, value, ObjectKeys(h, value)[j]),
                                                   schema.patternProperties[i].schema,
                                                   AtPath(options, ObjectKeys(h, value)[j]))
                                ELSE <<>>])])

\* evaluateCondition of validate.ts; validateValue calls it with
\* skipPropertyCheck false
evaluateConditionProbe(h, schema, value, options) ==
  IF Has(schema, "properties")
  THEN /\ value.k = "ref"
       /\ \A i \in 1..Len(schema.properties) :
            /\ Has(schema.properties[i].schema, "minimum") =>
                 /\ hasOwnProperty(h, value, schema.properties[i].key)
                 /\ ~JSLess(h, getValue(h, value, schema.properties[i].key),
                            schema.properties[i].schema.minimum)
            /\ Has(schema.properties[i].schema, "maximum") =>
                 /\ hasOwnProperty(h, value, schema.properties[i].key)
                 /\ ~JSGreater(h, getValue(h, value, schema.properties[i].key),
                               schema.properties[i].schema.maximum)
            /\ validateValue(h, getValue(h, value, schema.properties[i].key),
                             schema.properties[i].schema,
                             ProbeOptions(TRUE, options.currentPath
                                                  \o <<schema.properties[i].key>>)) = <<>>
  ELSE validateValue(h, value, schema, ProbeOptions(TRUE, options.currentPath)) = <<>>

\* the errors of the `if`, `then` and `else` of a schema
validateConditional(h, value, schema, options) ==
  IF evaluateConditionProbe(h, schema.if, value, options)
  THEN IF Has(schema, "then") THEN validateValue(h, value, schema.then, options) ELSE <<>>
  ELSE IF Has(schema, "else") THEN validateValue(h, value, schema.else, options) ELSE <<>>

\* the switch on schema.type at the end of validateValue
validateType(h, value, schema, options) ==
  CASE TypeIs(schema, "string") -> validateString(value, schema, options.currentPath)
    [] TypeIs(schema, "number") \/ TypeIs(schema, "integer") ->
         validateNumber(h, value, schema, options.currentPath)
    [] TypeIs(schema, "array") -> validateArray(h, value, schema, options)
    [] TypeIs(schema, "object") -> validateObject(h, value, schema, options)
    [] TypeIs(schema, "boolean") ->
         ErrorIf(value.k # "boolean", options.currentPath, "Value must be a boolean")
    [] TypeIs(schema, "null") ->
         ErrorIf(value.k # "null", options.currentPath, "Value must be null")
    [] OTHER -> <<>>

validateValue(h, value, schema, options) ==
  IF Has(schema, "const") /\ schema.const.k # "undefined" /\ ~StrictEq(value, schema.const)
  THEN <<createError(options.currentPath, "Value must be " \o JSString(h, schema.const))>>
  ELSE IF Has(schema, "enum") /\ ~Includes(schema.enum, value)
  THEN <<createError(options.currentPath,
                      "Value must be one of: " \o JoinValues(h, schema.enum))>>
  ELSE (IF Has(schema, "if") /\ ~options.skipConditional
        THEN validateConditional(h, value, schema, options)
        ELSE <<>>)
       \o Flatten([i \in 1..Len(Field(schema, "allOf", <<>>)) |->
                     validateValue(h, value, schema.allOf[i], options)])
       \o ErrorIf(Has(schema, "anyOf")
                    /\ \A i \in 1..Len(schema.anyOf) :
                         validateValue(h, value, schema.anyOf[i], options) # <<>>,
                  options.currentPath, "Value must match at least one schema in anyOf")
       \o ErrorIf(Has(schema, "oneOf")
                    /\ Cardinality({i \in 1..Len(schema.oneOf) :
                                      validateValue(h, value, schema.oneOf[i], options) = <<>>})
                       # 1,
                  options.currentPath, "Value must match exactly one schema in oneOf")
       \o validateType(h, value, schema, options)

----------------------------------------------------------------------------
(* The schemas and values a caller passes                                  *)

\* the objects that the schemas own: the `default` of DefaultObject is the
\* object at address 1
SchemaHeap == <<Node(FALSE, <<>>, EmptyVals)>>

\* property schemas
PStr == [type |-> Type("string")]
PStrX == [type |-> Type("string"), default |-> Str("x")]
PNum == [type |-> Type("number")]
PNum1 == [type |-> Type("number"), default |-> Num(1)]
PInt == [type |-> Type("integer")]
PAge == [type |-> Type("integer"), minimum |-> 18]
PUsername == [type |-> Type("string"), minLength |-> 3]
PEmail == [type |-> Type("string"), format |-> "email"]

\* the branches of a composition
BObject == [type |-> Type("object")]
BRequiredA ==
  [type |-> Type("object"), required |-> <<"a">>, properties |-> <<P("a", PNum1)>>]
BRequiredB == [type |-> Type("object"), required |-> <<"b">>]
BDefaultB == [type |-> Type("object"), properties |-> <<P("b", PStrX)>>]
BMaxProperties == [type |-> Type("object"), maxProperties |-> 0]
BMinProperties == [type |-> Type("object"), minProperties |-> 1]
BNotA == [not |-> [required |-> <<"a">>]]
BNotB == [not |-> [required |-> <<"b">>]]
BString == [type |-> Type("string")]
BInteger == [type |-> Type("integer"), minimum |-> 1]
Branches ==
  {BObject, BRequiredA, BRequiredB, BDefaultB, BMaxProperties, BMinProperties,
   BNotA, BNotB, BString, BInteger}

\* compositions of two branches, with and without a `default`
AllOfSchemas == {[allOf |-> <<A, B>>] : A \in Branches, B \in Branches}
AnyOfSchemas ==
  {[anyOf |-> <<A, B>>] : A \in Branches, B \in Branches}
  \cup {[anyOf |-> <<A, BString>>, default |-> Str("x")] : A \in Branches}
OneOfSchemas ==
  {[oneOf |-> <<A, B>>] : A \in Branches, B \in Branches}
  \cup {[oneOf |-> <<A, BObject>>, default |-> Str("x")] : A \in Branches}

\* object schemas that carry `not`, directly or in the members of allOf
NotSchemas ==
  {[type |-> Type("object"), not |-> [required |-> R]] : R \in {<<"a">>, <<"a", "b">>}}
  \cup {[type |-> Type("object"), allOf |-> <<BNotA, BNotB>>],
        [type |-> Type("object"), not |-> [required |-> <<"a">>], allOf |-> <<BNotB>>],
        [type |-> Type("object"), not |-> [required |-> <<"a">>], allOf |-> <<BObject>>],
        [type |-> Type("object"), not |-> [required |-> <<"a">>],
         properties |-> <<P("a", PNum1)>>],
        [type |-> Type("object"), not |-> [required |-> <<"a">>],
         properties |-> <<P("a", PStr)>>, allOf |-> <<BNotB>>],
        [type |-> Type("object"), not |-> [required |-> <<"a">>],
         allOf |-> <<[not |-> [required |-> <<"b">>], minProperties |-> 2]>>]}

\* schema with the keyword kw set to v
With(schema, kw, v) ==
  [kk \in (DOMAIN schema) \cup {kw} |-> IF kk = kw THEN v ELSE schema[kk]]

\* schema with the keyword kw set to the member of a list of at most one
WithOptional(schema, kw, optional) ==
  IF optional = <<>> THEN schema ELSE With(schema, kw, optional[1])

\* conditional schemas: a base, an `if`, and optional `then` and `else`
IfConst == [properties |-> <<P("k", [const |-> Str("x")])>>]
IfDefault == [properties |-> <<P("k", [const |-> Str("x"), default |-> Str("x")])>>]
IfRequired == [required |-> <<"a">>]
IfContains == [contains |-> [const |-> Num(5)]]
ThenRequired == [required |-> <<"b">>]
ThenMinimum == [properties |-> <<P("n", [minimum |-> 5])>>]
ElseRequired == [required |-> <<"c">>]
BaseObject == [type |-> Type("object"), properties |-> <<P("n", PInt)>>]
BaseUntyped == [properties |-> <<P("n", PInt)>>]
ConditionalSchemas ==
  {WithOptional(WithOptional(With(base, "if", cond), "then", thenOption), "else", elseOption) :
     base \in {EmptySchema, BaseObject, BaseUntyped},
     cond \in {IfConst, IfDefault, IfRequired, IfContains},
     thenOption \in {<<>>, <<ThenRequired>>, <<ThenMinimum>>},
     elseOption \in {<<>>, <<ElseRequired>>}}

\* object, array and primitive schemas
User ==
  [type |-> Type("object"),
   properties |-> <<P("username", PUsername), P("email", PEmail), P("age", PAge)>>]
Nested ==
  [type |-> Type("object"), required |-> <<"a">>,
   properties |-> <<P("a", PStrX), P("k", [type |-> Type("object"),
                                           properties |-> <<P("a", PStr)>>])>>]
NestedInteger ==
  [type |-> Type("object"), required |-> <<"a">>,
   properties |-> <<P("a", PStr), P("k", [type |-> Type("object"),
                                          properties |-> <<P("a", PInt)>>])>>]
\* nodes that declare a keyword that their only member declares as well
OwnConst == [const |-> Num(7), allOf |-> <<[const |-> Num(5)]>>]
OwnConstOneOf == [const |-> Str("abc"), oneOf |-> <<[const |-> Str("x")]>>]
OwnMinimum == [type |-> Type("integer"), minimum |-> 18, anyOf |-> <<[minimum |-> 1]>>]
\* a property whose condition names a property of the same name
SelfNamed ==
  [type |-> Type("object"),
   properties |-> <<P("a", [type |-> Type("object"),
                            if |-> [properties |-> <<P("a", [const |-> Str("x")])>>],
                            then |-> [required |-> <<"b">>]])>>]
RequiredDefault ==
  [type |-> Type("object"), required |-> <<"a">>,
   properties |-> <<P("a", PStrX), P("c", PNum)>>]
RequiredTwo ==
  [type |-> Type("object"), required |-> <<"a", "b">>,
   properties |-> <<P("a", PStr), P("b", PNum)>>]
RequiredMixed ==
  [type |-> Type("object"), required |-> <<"b", "a">>,
   properties |-> <<P("a", PStrX), P("b", PNum)>>]
RequiredBare == [type |-> Type("object"), required |-> <<"a", "b">>]
DefaultObject ==
  [type |-> Type("object"), default |-> Ref(1), required |-> <<"a">>,
   properties |-> <<P("a", PStrX)>>]
Ages == [type |-> Type("object"), properties |-> <<P("age", PAge)>>]
Patterned == [type |-> Type("object"), patternProperties |-> <<P("^a", PStrX)>>]
Pair == [type |-> Type("object"), properties |-> <<P("b", PEmail), P("a", PStr)>>]
AgeList == [type |-> Type("array"), items |-> Items(PAge), minItems |-> 1]
AgePair == [type |-> Type("array"), items |-> Tuple(<<PAge, PStr>>),
            additionalItems |-> Allow(FALSE)]
AgeTuple == [type |-> Type("array"), items |-> Tuple(<<PAge, PStr>>)]
AgeRest == [type |-> Type("array"), items |-> Tuple(<<PAge, PStr>>),
            additionalItems |-> Sub(PAge)]
StringOrNumber == [type |-> Types(<<"string", "number">>), minLength |-> 3, minimum |-> 1]
ObjectOrString ==
  [type |-> Types(<<"object", "string">>), minLength |-> 3,
   dependentSchemas |-> <<P("a", [required |-> <<"b">>])>>]
ArrayOrNumber ==
  [type |-> Types(<<"array", "number">>), minimum |-> 1, minItems |-> 1,
   prefixItems |-> <<PStr>>]
\* schemas whose `type` is a list
TypeListSchemas ==
  {[type |-> Types(names)] :
     names \in {<<"integer", "null">>, <<"integer", "number">>, <<"number", "integer">>,
                <<"integer", "string">>, <<"string", "number">>, <<"object", "array">>,
                <<"boolean", "string", "null">>}}

PlainSchemas ==
  {User, Nested, NestedInteger, OwnConst, OwnConstOneOf, OwnMinimum, SelfNamed, RequiredDefault, RequiredTwo, RequiredMixed, RequiredBare, DefaultObject, Ages, Patterned, Pair, AgeList, AgePair, AgeTuple, AgeRest,
   StringOrNumber,
   ObjectOrString, ArrayOrNumber,
   PAge, PInt, PStr, PStrX, PEmail, BInteger,
   [type |-> Type("boolean")], [type |-> Type("null")], [type |-> Type("date")],
   [const |-> Num(5)], [enum |-> <<Str("x"), Num(5)>>]}

SchemaSet ==
  AllOfSchemas \cup AnyOfSchemas \cup OneOfSchemas \cup NotSchemas
  \cup ConditionalSchemas \cup TypeListSchemas \cup PlainSchemas

\* the values (as trees) that a caller passes
EmptyObject == TObj(<<>>)
ValueSet ==
  {TUndefined, TNull, TNum(5), TNum(0), THalf(1), TStr("x"), TStr("abc"), TBool(TRUE),
   EmptyObject,
   TObj([a |-> TNum(1)]), TObj([a |-> TStr("x")]), TObj([b |-> TStr("x")]),
   TObj([a |-> TNull]), TObj([a |-> TUndefined]),
   TObj([a |-> TStr("x"), b |-> TStr("a@b.co")]),
   TObj([a |-> TNum(1), b |-> TStr("x")]), TObj([c |-> TStr("bad")]),
   TObj([k |-> TStr("x")]), TObj([k |-> TStr("y")]), TObj([k |-> TStr("x"), n |-> TNum(7)]),
   TObj([k |-> TStr("x"), b |-> TStr("x")]),
   TObj([a |-> TStr("x"), k |-> EmptyObject]),
   TObj([a |-> TObj([a |-> TStr("x")])]), TObj([a |-> TObj([b |-> TStr("x")])]),
   TObj([age |-> TNum(16)]), TObj([age |-> TNum(20)]),
   TObj([username |-> TStr("ab"), email |-> TStr("invalid-email"), age |-> TNum(16)]),
   TObj([username |-> TStr("john"), email |-> TStr("invalid-email"), age |-> TNum(16)]),
   TObj([username |-> TStr("john"), email |-> TStr("john@example.com"), age |-> TNum(20)]),
   TArr(<<>>), TArr(<<TNum(20)>>), TArr(<<TNum(5), TNum(20)>>), TArr(<<TNum(20), TStr("x"), TNum(1)>>),
   TArr(<<TNum(20), TStr("x"), TNum(30)>>)}

----------------------------------------------------------------------------
(* The state machine: a caller holds a schema and a value, calls           *)
(* resolveValues, and may pass the resolved value to resolveValues again.  *)

\* the calls one caller makes
MaxCalls == 2

VARIABLES
  schema,   \* the schema the caller holds
  heap,     \* the objects of the program: those of the schema, then the others
  values,   \* the value the caller holds
  passed,   \* the value passed to the last call
  before,   \* the heap when the last call was made
  outcome,  \* what the last call returned
  calls,    \* the number of calls made
  schema1,  \* the first schema a caller of mergeSchemas holds
  schema2,  \* the second schema a caller of mergeSchemas holds
  merged,   \* what mergeSchemas returned
  validation, \* what validateValue returned
  invocations, \* the calls of resolveValues that run at the same time
  resolvers   \* the SchemaResolver objects of these calls

mergeVars == <<schema1, schema2, merged>>

concurrentVars == <<invocations, resolvers>>

vars == <<schema, heap, values, passed, before, outcome, calls, mergeVars, validation,
          concurrentVars>>

\* no calls run at the same time
ConcurrentIdle ==
  /\ invocations = <<>>
  /\ resolvers = <<>>

\* validateValue has not been called
NotValidated == [done |-> FALSE, errors |-> <<>>]

\* mergeSchemas has not been called
NotMerged == [by |-> "none", options |-> NoMergeOptions, result |-> EmptySchema]
MergeIdle ==
  /\ schema1 = EmptySchema
  /\ schema2 = EmptySchema
  /\ merged = NotMerged

\* what the caller sees of the world after a call
Outcome(w) ==
  [ok |-> w.ok /\ ~w.thrown, value |-> w.value, errors |-> w.errors,
   thrown |-> w.thrown, ef |-> w.ef]

Init ==
  /\ schema \in SchemaSet
  /\ \E tree \in ValueSet : \E stored \in {Store(SchemaHeap, tree)} :
       /\ heap = stored[1]
       /\ values = stored[2]
  /\ passed = Undefined
  /\ before = heap
  /\ outcome = Outcome(World(heap))
  /\ calls = 0
  /\ MergeIdle
  /\ validation = NotValidated
  /\ ConcurrentIdle

\* await resolver.resolveValues(schema, values)
ResolveValues ==
  /\ calls = 0
  /\ \E w \in {resolveValues(heap, schema, values)} :
       /\ heap' = w.h
       /\ outcome' = Outcome(w)
  /\ passed' = values
  /\ before' = heap
  /\ calls' = 1
  /\ UNCHANGED <<schema, values, mergeVars, validation, concurrentVars>>

\* await resolver.resolveValues(schema, result.value), for a result that is ok
ResolveResolved ==
  /\ calls \in 1..(MaxCalls - 1)
  /\ outcome.ok
  /\ \E w \in {resolveValues(heap, schema, outcome.value)} :
       /\ heap' = w.h
       /\ outcome' = Outcome(w)
  /\ passed' = outcome.value
  /\ before' = heap
  /\ calls' = calls + 1
  /\ UNCHANGED <<schema, values, mergeVars, validation, concurrentVars>>

Next == ResolveValues \/ ResolveResolved

Spec == Init /\ [][Next]_vars

----------------------------------------------------------------------------
(* A second state machine: a caller holds two schemas and merges them with *)
(* mergeSchemas of merge.ts, or with the mergeSchemas that takes options.  *)

\* the caller of resolveValues does nothing
CallerIdle ==
  /\ schema = EmptySchema
  /\ heap = SchemaHeap
  /\ values = Undefined
  /\ passed = Undefined
  /\ before = SchemaHeap
  /\ outcome = Outcome(World(SchemaHeap))
  /\ calls = 0

callerVars == <<schema, heap, values, passed, before, outcome, calls>>

\* the schemas that are merged
MergeSet ==
  {EmptySchema, BObject, PAge, StringOrNumber,
   [const |-> Num(5)], [const |-> Num(7)], [const |-> Num(0)],
   [enum |-> <<Num(5)>>], [enum |-> <<Num(7)>>], [enum |-> <<Num(5), Num(7)>>],
   [enum |-> <<Str("x"), Num(5)>>],
   [if |-> IfConst], [if |-> IfConst, then |-> ThenMinimum],
   [if |-> IfRequired, then |-> ThenRequired, else |-> ElseRequired],
   [then |-> ThenRequired], [type |-> Type("number"), else |-> ElseRequired]}

MergeOptionsSet == {NoMergeOptions, MergeOptions(TRUE, FALSE), MergeOptions(TRUE, TRUE)}

MergeInit ==
  /\ schema1 \in MergeSet
  /\ schema2 \in MergeSet
  /\ merged = NotMerged
  /\ CallerIdle
  /\ validation = NotValidated
  /\ ConcurrentIdle

\* mergeSchemas(schema1, schema2) of merge.ts
MergeSchemas ==
  /\ merged.by = "none"
  /\ merged' = [by |-> "mergeSchemas", options |-> NoMergeOptions,
                 result |-> mergeSchemas(schema1, schema2)]
  /\ UNCHANGED <<schema1, schema2, callerVars, validation, concurrentVars>>

\* mergeSchemas(schema1, schema2, options)
MergeSchemasOptions ==
  /\ merged.by = "none"
  /\ \E options \in MergeOptionsSet :
       merged' = [by |-> "mergeSchemasOptions", options |-> options,
                  result |-> mergeSchemasOptions(schema1, schema2, options)]
  /\ UNCHANGED <<schema1, schema2, callerVars, validation, concurrentVars>>

MergeNext == MergeSchemas \/ MergeSchemasOptions

MergeSpec == MergeInit /\ [][MergeNext]_vars

----------------------------------------------------------------------------
(* A third state machine: a caller validates a value with validateValue.   *)

\* { type: 'object', properties, allOf: [{ not: { required } }] }
NotRequired(names, required) ==
  [type |-> Type("object"),
   properties |-> [i \in 1..Len(names) |-> P(names[i], BString)],
   allOf |-> <<[not |-> [required |-> required]]>>]

\* { type: 'object', properties, oneOf: [{ required: [k] }, ...] }
OneOfRequired(names) ==
  [type |-> Type("object"),
   properties |-> [i \in 1..Len(names) |-> P(names[i], BString)],
   oneOf |-> [i \in 1..Len(names) |-> [required |-> <<names[i]>>]]]

ExclusionSchemas ==
  {NotRequired(<<"a", "b">>, <<"a", "b">>), NotRequired(<<"a", "b">>, <<"a">>),
   NotRequired(<<"a">>, <<"b">>)}

ExactlyOneSchemas ==
  {OneOfRequired(<<"a", "b", "c">>), OneOfRequired(<<"a", "b">>), OneOfRequired(<<"a">>)}

\* the schemas of the tests of validateValue, and the schemas of the resolver
ValidateSet ==
  ExclusionSchemas \cup ExactlyOneSchemas
  \cup {[allOf |-> <<[anyOf |-> <<[type |-> Type("string"), minLength |-> 5],
                                  [type |-> Type("number"), minimum |-> 10]>>],
                     [anyOf |-> <<[type |-> Type("string"), maxLength |-> 10],
                                  [type |-> Type("number"), maximum |-> 20]>>]>>],
         [not |-> BString], [not |-> [type |-> Type("object"), required |-> <<"a">>]]}
  \cup PlainSchemas

ValidateValues ==
  {TUndefined, TNull, TStr("hi"), TStr("valid"), TNum(15), TNum(25), THalf(1), TBool(TRUE),
   TObj(<<>>), TObj([a |-> TStr("test")]), TObj([b |-> TStr("test")]),
   TObj([a |-> TStr("test"), b |-> TStr("test")]),
   TObj([a |-> TStr("test"), b |-> TStr("test"), c |-> TStr("test")]),
   TObj([a |-> TUndefined]), TObj([a |-> TNum(1), b |-> TStr("test")]),
   TArr(<<>>), TArr(<<TNum(1), TNum(1)>>), TArr(<<TStr("x"), TNum(5)>>)}

ValidateInit ==
  /\ schema \in ValidateSet
  /\ \E tree \in ValidateValues : \E stored \in {Store(SchemaHeap, tree)} :
       /\ heap = stored[1]
       /\ values = stored[2]
  /\ passed = Undefined
  /\ before = heap
  /\ outcome = Outcome(World(heap))
  /\ calls = 0
  /\ MergeIdle
  /\ validation = NotValidated
  /\ ConcurrentIdle

\* await validateValue(values, schema)
ValidateValue ==
  /\ ~validation.done
  /\ validation' = [done |-> TRUE,
                     errors |-> validateValue(heap, values, schema, NoProbeOptions)]
  /\ UNCHANGED <<callerVars, mergeVars, concurrentVars>>

ValidateNext == ValidateValue

ValidateSpec == ValidateInit /\ [][ValidateNext]_vars

----------------------------------------------------------------------------
(* A fourth state machine: two calls of the exported resolveValues run at  *)
(* the same time, on schemas and values that share no object.  A call      *)
(* gives way to the other one where internalResolveValues awaits: after    *)
(* resolveValue, after resolveConditional, after resolveComposition, and   *)
(* inside resolveNot between the increment of negationDepth and the probe. *)

Calls == {1, 2}

\* one resolver for all calls
validatorShared(call) == 1

\* const validator = new SchemaResolver(options): a resolver for each call
validatorOf(call) == call

\* the fields the constructor sets
NewResolver == [nd |-> 0, pend |-> 0]

\* a call that has not started; amid tells that it took a step while
\* another call was inside resolveNot
Invocation(sub, value) ==
  [schema |-> sub, values |-> value, pc |-> "value", result |-> Outcome(World(SchemaHeap)),
   amid |-> FALSE]

\* schemas without objects of their own
ConcurrentSet ==
  {RequiredTwo, RequiredBare, Ages, StringOrNumber,
   [type |-> Type("object"), not |-> [required |-> <<"a">>]],
   [type |-> Type("object"), required |-> <<"b">>, not |-> [required |-> <<"a">>]],
   [type |-> Type("object"), properties |-> <<P("n", PInt)>>,
    if |-> IfRequired, then |-> ThenRequired]}

ConcurrentValues ==
  {TUndefined, EmptyObject, TObj([a |-> TStr("x")]), TObj([b |-> TNum(1)]), TStr("abc")}

ConcurrentInit ==
  /\ \E tree1, tree2 \in ConcurrentValues :
       \E stored1 \in {Store(SchemaHeap, tree1)} : \E stored2 \in {Store(stored1[1], tree2)} :
         /\ heap = stored2[1]
         /\ \E sub1, sub2 \in ConcurrentSet :
              invocations = <<Invocation(sub1, stored1[2]), Invocation(sub2, stored2[2])>>
  /\ resolvers = [call \in Calls |-> NewResolver]
  /\ before = heap
  /\ schema = EmptySchema
  /\ values = Undefined
  /\ passed = Undefined
  /\ outcome = Outcome(World(SchemaHeap))
  /\ calls = 0
  /\ MergeIdle
  /\ validation = NotValidated

\* the world a call works in: the heap, and the counter of its resolver
WorldOf(call) ==
  [World(heap) EXCEPT !.nd = resolvers[validatorOf(call)].nd,
                      !.pend = resolvers[validatorOf(call)].pend]

\* the value a call has resolved so far
ResultOf(call) == invocations[call].result.value

\* a step of a call has come to the world w; the call goes on at pc unless
\* the step failed
Settle(call, w, pc) ==
  /\ heap' = w.h
  /\ resolvers' = [resolvers EXCEPT ![validatorOf(call)] = [nd |-> w.nd, pend |-> w.pend]]
  /\ invocations' = [invocations EXCEPT
                       ![call].pc = IF w.thrown \/ ~w.ok THEN "done" ELSE pc,
                       ![call].result = Outcome(w),
                       ![call].amid = @ \/ \E other \in Calls \ {call} :
                                              invocations[other].pc = "negated"]
  /\ UNCHANGED <<schema, values, passed, before, outcome, calls, mergeVars, validation>>

\* the call is about to enter resolveNot
EntersNot(call) ==
  /\ invocations[call].pc = "composition"
  /\ StepApplies("composition", heap, invocations[call].schema, ResultOf(call))
  /\ Has(invocations[call].schema, "not")

\* this.negationDepth++ at the start of resolveNot
EnterNot(call) ==
  /\ EntersNot(call)
  /\ resolvers' = [resolvers EXCEPT ![validatorOf(call)].nd = @ + 1]
  /\ invocations' = [invocations EXCEPT ![call].pc = "negated"]
  /\ UNCHANGED <<callerVars, mergeVars, validation>>

\* the call goes on from where it gave way: it makes the call at its pc, or
\* passes it by if its condition does not hold, up to the next place where
\* it gives way; after the last one it returns to the caller of resolveValues
Resume(call) ==
  /\ invocations[call].pc # "done"
  /\ ~EntersNot(call)
  /\ \E w \in {IF invocations[call].pc = "negated"
                   \/ StepApplies(invocations[call].pc, heap, invocations[call].schema,
                                  ResultOf(call))
                THEN Await(resolveStep(invocations[call].pc, WorldOf(call),
                                       invocations[call].schema,
                                       IF invocations[call].pc = "value"
                                       THEN invocations[call].values ELSE ResultOf(call),
                                       invocations[call].schema, NoKey, NoOptions))
                ELSE success(WorldOf(call), ResultOf(call))} :
       Settle(call, w, IF invocations[call].pc = "negated" THEN "type"
                       ELSE AfterStep(invocations[call].pc))

ConcurrentNext ==
  \E call \in Calls :
    \/ EnterNot(call)
    \/ Resume(call)

ConcurrentSpec == ConcurrentInit /\ [][ConcurrentNext]_vars

----------------------------------------------------------------------------
(* A fifth state machine: a caller calls resolveValues of the class that   *)
(* keeps a path stack.  Each call makes a new SchemaResolver.              *)

\* the schemas of this caller
PathNested ==
  [type |-> Type("object"), required |-> <<"a">>,
   properties |-> <<P("a", PStr),
                    P("c", [type |-> Type("object"),
                            properties |-> <<P("a", PStr), P("b", PStr)>>])>>]
PathTwo == [type |-> Type("object"), properties |-> <<P("a", PStr), P("b", PStr)>>]
PathAnyOf ==
  [type |-> Type("object"),
   properties |-> <<P("a", [anyOf |-> <<PStr, PNum>>]), P("b", PStr)>>]
PathOneOf ==
  [oneOf |-> <<PStr,
               [type |-> Type("object"), required |-> <<"a">>,
                properties |-> <<P("a", PStr), P("b", PStr)>>]>>]
PathOneOfProperty ==
  [type |-> Type("object"),
   properties |-> <<P("a", [oneOf |-> <<PStr, PNum>>]), P("b", PNum)>>]
PathSchemas ==
  {PathNested, PathTwo, PathAnyOf, PathOneOf, PathOneOfProperty, RequiredDefault, RequiredTwo,
   PStr, PInt, [anyOf |-> <<PStr, PInt>>], [allOf |-> <<PathTwo>>, required |-> <<"b">>]}

\* the values of this caller: objects with the properties a, b and c, each
\* of them present or not
Absent == [k |-> "absent", n |-> 0, s |-> "", o |-> <<>>]
ObjectOf(a, b, c) ==
  LET entries == [a |-> a, b |-> b, c |-> c]
  IN  TObj([kk \in {kk \in DOMAIN entries : entries[kk] # Absent} |-> entries[kk]])
PathValues ==
  {TUndefined, TNull, TNum(5)}
  \cup {ObjectOf(a, b, c) :
          a \in {Absent, TNull, TStr("x"), TNum(5)},
          b \in {Absent, TStr("y"), TNum(5)},
          c \in {Absent, EmptyObject, TObj([a |-> TNull, b |-> TNum(5)]),
                 TObj([a |-> TStr("x"), b |-> TStr("y")])}}

\* what the caller sees of the world after a call, with the stack and the
\* collected errors of the resolver that served it
PathOutcome(w) ==
  [ok |-> w.ok /\ ~w.thrown, value |-> w.value, errors |-> w.errors, thrown |-> w.thrown,
   stack |-> w.stack, all |-> w.all, balanced |-> w.balanced]

PathInit ==
  /\ schema \in PathSchemas
  /\ \E tree \in PathValues : \E stored \in {Store(SchemaHeap, tree)} :
       /\ heap = stored[1]
       /\ values = stored[2]
  /\ passed = Undefined
  /\ before = heap
  /\ outcome = PathOutcome(PathWorld(heap))
  /\ calls = 0
  /\ MergeIdle
  /\ validation = NotValidated
  /\ ConcurrentIdle

\* await resolveValues(schema, values)
ResolveValuesPath ==
  /\ calls = 0
  /\ \E w \in {resolveValuesPath(heap, schema, values)} :
       /\ heap' = w.h
       /\ outcome' = PathOutcome(w)
  /\ passed' = values
  /\ before' = heap
  /\ calls' = 1
  /\ UNCHANGED <<schema, values, mergeVars, validation, concurrentVars>>

\* await resolveValues(schema, result.value), for a result that is ok
ResolveResolvedPath ==
  /\ calls \in 1..(MaxCalls - 1)
  /\ outcome.ok
  /\ \E w \in {resolveValuesPath(heap, schema, outcome.value)} :
       /\ heap' = w.h
       /\ outcome' = PathOutcome(w)
  /\ passed' = outcome.value
  /\ before' = heap
  /\ calls' = calls + 1
  /\ UNCHANGED <<schema, values, mergeVars, validation, concurrentVars>>

PathNext == ResolveValuesPath \/ ResolveResolvedPath

PathSpec == PathInit /\ [][PathNext]_vars

----------------------------------------------------------------------------
(* The claims                                                              *)

\* the outcome of resolving the value of the last call, as it was when the
\* call was made, against a schema on its own
Alone(sub) == resolveValues(before, sub, passed)

\* the value of a world, as a tree
ValueOf(w) == Deref(w.h, w.value)

\* C1: every call returns a Success without errors or a Failure with at
\* least one error, and no resolver step inside the call builds a Failure
\* from an empty error list.
C1_SuccessOrFailure ==
  (calls >= 1 /\ ~outcome.thrown) =>
    /\ outcome.ok => outcome.errors = <<>>
    /\ ~outcome.ok => Len(outcome.errors) >= 1
    /\ ~outcome.ef

\* C2: a resolved value is a fixed point: passed to resolveValues again,
\* with the same schema, it is returned unchanged in a Success.
C2_DefaultIdempotence ==
  calls >= 2 => (outcome.ok /\ Deref(heap, outcome.value) = Deref(before, passed))

\* C3: {allOf: [A, B]} succeeds exactly when the value satisfies A on its
\* own and B on its own, and the result of a success on an object has the
\* properties that A alone and B alone give it.
C3_AllOfConjunction ==
  (calls >= 1 /\ ~outcome.thrown /\ DOMAIN schema = {"allOf"} /\ Len(schema.allOf) = 2) =>
    LET A == Alone(schema.allOf[1])
        B == Alone(schema.allOf[2])
    IN  /\ outcome.ok <=> (A.ok /\ B.ok)
        /\ (outcome.ok /\ isObject(before, passed)) =>
             /\ isObject(heap, outcome.value)
             /\ \A r \in {A, B} :
                  \A kk \in (DOMAIN ValueOf(r).o) \ (DOMAIN Deref(before, passed).o) :
                    /\ kk \in DOMAIN Deref(heap, outcome.value).o
                    /\ Deref(heap, outcome.value).o[kk] = ValueOf(r).o[kk]

\* C4: {oneOf: [A, B]} without a default fails with the oneOf violation when
\* the value satisfies more than one branch on its own, and succeeds only
\* when it satisfies exactly one.
C4_OneOfExclusivity ==
  (calls >= 1 /\ ~outcome.thrown /\ DOMAIN schema = {"oneOf"} /\ Len(schema.oneOf) >= 2) =>
    LET satisfied == {i \in 1..Len(schema.oneOf) : Alone(schema.oneOf[i]).ok}
    IN  /\ Cardinality(satisfied) > 1 =>
             /\ ~outcome.ok
             /\ outcome.errors = <<Err("Value must match exactly one schema in oneOf")>>
        /\ outcome.ok => Cardinality(satisfied) = 1

\* the lists R of the not: {required: R} that a schema carries, directly
\* or in a member of its allOf
NotRequiredLists(s) ==
  (IF Has(s, "not") /\ Has(s["not"], "required") THEN {s["not"].required} ELSE {})
  \cup (IF Has(s, "allOf")
        THEN {s.allOf[i]["not"].required :
                i \in {j \in 1..Len(s.allOf) :
                         Has(s.allOf[j], "not") /\ Has(s.allOf[j]["not"], "required")}}
        ELSE {})

\* the value has every property listed in R
HasEvery(h, value, R) ==
  isObject(h, value) /\ \A i \in 1..Len(R) : getValue(h, value, R[i]).k # "undefined"

\* C5: a schema that carries not: {required: R}, directly or in a member
\* of its allOf, fails with 'Value must not match schema' when the value
\* has every property listed in one R, and so succeeds only if the value
\* misses a property of each R.
C5_NotRequired ==
  (calls >= 1 /\ ~outcome.thrown) =>
    \A R \in NotRequiredLists(schema) :
      HasEvery(before, passed, R) =>
        /\ ~outcome.ok
        /\ \E i \in 1..Len(outcome.errors) :
             outcome.errors[i].message = "Value must not match schema"

\* C6: after a Failure the value that was passed in is, at every depth,
\* what it was before the call.
C6_FailureLeavesValue ==
  (calls >= 1 /\ ~outcome.thrown /\ ~outcome.ok) =>
    Deref(heap, passed) = Deref(before, passed)

\* C7: after a call the objects of the schema, the values of `default`
\* among them, are what they were before the call.
C7_SchemaUnchanged ==
  \A a \in 1..Len(SchemaHeap) : heap[a] = SchemaHeap[a]

\* two outcomes are the same Success or the same Failure
SameOutcome(h1, o1, h2, o2) ==
  /\ o1.ok = o2.ok
  /\ o1.ok => Deref(h1, o1.value) = Deref(h2, o2.value)
  /\ ~o1.ok => o1.errors = o2.errors

\* the schema that a conditional schema stands for, by the value
ConditionalTarget(s, satisfied) ==
  LET base == Without(s, {"if", "then", "else"})
  IN  IF satisfied /\ Has(s, "then") THEN mergeSchemas(base, s["then"])
      ELSE IF Has(s, "else") THEN mergeSchemas(base, s["else"])
      ELSE base

\* C8: the outcome for a schema with `if` is the outcome of resolving the
\* value against the base schema merged with `then` when the value
\* satisfies `if` and `then` is present, else against the base schema
\* merged with `else` when `else` is present, else against the base schema.
C8_Conditional ==
  (calls >= 1 /\ ~outcome.thrown /\ Has(schema, "if")) =>
    LET satisfied == evaluateCondition(World(before), schema["if"], passed, schema, NoKey,
                                       NoOptions)
        expected == Alone(ConditionalTarget(schema, satisfied.ok))
    IN  ~satisfied.thrown => SameOutcome(heap, outcome, expected.h, Outcome(expected))

\* an object schema that declares its properties, and a value that has
\* every one of them
DeclaresProperties(s) ==
  TypeIs(s, "object") /\ Has(s, "properties")
  /\ DOMAIN s \subseteq {"type", "properties", "required"}
AllPresent(h, value, properties) ==
  isObject(h, value)
  /\ \A i \in 1..Len(properties) : getValue(h, value, properties[i].key).k # "undefined"

\* the errors of each property resolved as a property of the schema, in
\* declaration order from entry i, each under the name of its property
RECURSIVE PropertyErrors(_, _)
PropertyErrors(properties, i) ==
  IF i > Len(properties) THEN <<>>
  ELSE PrefixErrors(internalResolveValues(World(before), properties[i].schema,
                                          getValue(before, passed, properties[i].key),
                                          schema, properties[i].key, NoOptions).errors,
                    properties[i].key)
       \o PropertyErrors(properties, i + 1)

\* C9: for an object schema whose declared properties are all present in
\* the value, the errors of a Failure are the errors of every failing
\* property, in declaration order, each with a path that starts with the
\* name of the property: a failing property does not hide its siblings.
C9_PropertyErrors ==
  (calls >= 1 /\ DeclaresProperties(schema) /\ AllPresent(before, passed, schema.properties)) =>
    LET errors == PropertyErrors(schema.properties, 1)
    IN  errors # <<>> => (~outcome.ok /\ outcome.errors = errors)

\* C9 witness: three failing properties username, email and age gave three
\* errors in that order
C9_ThreeErrors ==
  /\ calls = 1
  /\ schema = User
  /\ ~outcome.ok
  /\ [i \in 1..Len(outcome.errors) |-> outcome.errors[i].path]
       = <<(<<"username">>), (<<"email">>), (<<"age">>)>>

\* C10: for {anyOf: [A, B]}, if the value satisfies a branch on its own the
\* outcome is a Success with the value that was passed in, unchanged; if it
\* satisfies none the outcome is a Success with the `default` when there is
\* one, else a Failure with 'Value must match at least one schema in anyOf'
\* and the errors of every branch.
C10_AnyOf ==
  (calls >= 1 /\ ~outcome.thrown /\ Has(schema, "anyOf") /\ Len(schema.anyOf) >= 2
     /\ DOMAIN schema \subseteq {"anyOf", "default"}) =>
    LET branches == 1..Len(schema.anyOf)
        satisfied == {i \in branches : Alone(schema.anyOf[i]).ok}
    IN  /\ satisfied # {} =>
             /\ outcome.ok
             /\ outcome.value = passed
             /\ Deref(heap, passed) = Deref(before, passed)
        /\ (satisfied = {} /\ Has(schema, "default")) =>
             (outcome.ok /\ outcome.value = schema.default)
        /\ (satisfied = {} /\ ~Has(schema, "default")) =>
             /\ ~outcome.ok
             /\ \E i \in 1..Len(outcome.errors) :
                  outcome.errors[i].message = "Value must match at least one schema in anyOf"
             /\ \A b \in branches :
                  \A j \in 1..Len(Alone(schema.anyOf[b]).errors) :
                    \E i \in 1..Len(outcome.errors) :
                      outcome.errors[i].message = Alone(schema.anyOf[b]).errors[j].message

\* C11: for {oneOf: [A, B], default: d}, when the value satisfies none of
\* the branches on its own, or more than one, the outcome is a Success whose
\* value is d.
C11_OneOfDefault ==
  (calls >= 1 /\ ~outcome.thrown /\ DOMAIN schema = {"oneOf", "default"}
     /\ Len(schema.oneOf) >= 2) =>
    LET satisfied == {i \in 1..Len(schema.oneOf) : Alone(schema.oneOf[i]).ok}
    IN  Cardinality(satisfied) # 1 => (outcome.ok /\ outcome.value = schema.default)

\* the keys of an object that match the pattern of an entry of patternProperties
MatchingKeys(h, value, entry) ==
  {kk \in DOMAIN h[value.n].vals : RegExpTest(entry.key, kk)}

\* C12: for an object schema with patternProperties and no properties, a
\* key of the value that matches a pattern is resolved against the
\* sub-schema of the pattern: if its value is undefined and the sub-schema
\* has a default, a Success has the default under the key; if its value
\* violates the sub-schema, the outcome is a Failure with an error under the
\* key; and a Success leaves a key that matches no pattern as it was.
C12_PatternProperties ==
  (calls >= 1 /\ ~outcome.thrown /\ TypeIs(schema, "object")
     /\ DOMAIN schema = {"type", "patternProperties"} /\ isObject(before, passed)) =>
    /\ \A i \in 1..Len(schema.patternProperties) :
         \A kk \in MatchingKeys(before, passed, schema.patternProperties[i]) :
           LET sub == schema.patternProperties[i].schema
               propValue == getValue(before, passed, kk)
           IN  /\ (outcome.ok /\ propValue.k = "undefined" /\ Has(sub, "default")) =>
                    getValue(heap, outcome.value, kk) = sub.default
               /\ ~resolveValues(before, sub, propValue).ok =>
                    /\ ~outcome.ok
                    /\ \E e \in 1..Len(outcome.errors) :
                         outcome.errors[e].path # <<>> /\ outcome.errors[e].path[1] = kk
    /\ outcome.ok =>
         \A kk \in DOMAIN before[passed.n].vals :
           (\A i \in 1..Len(schema.patternProperties) :
              ~RegExpTest(schema.patternProperties[i].key, kk)) =>
             Deref(heap, getValue(heap, outcome.value, kk))
               = Deref(before, getValue(before, passed, kk))

\* the names listed in `required` that the value does not have
AbsentRequired(h, s, value) ==
  {s.required[i] : i \in {j \in 1..Len(s.required) :
                            getValue(h, value, s.required[j]).k = "undefined"}}

\* the property schema of a name declares a default
DeclaresDefault(s, name) == HasProp(s, name) /\ Has(PropOf(s, name), "default")

\* C13: for an object schema with `required`, each listed name that the
\* value does not have either has a default in its property schema, and then
\* no error is reported for it and a Success has the default under the name,
\* or has none, and then the outcome is a Failure with exactly one
\* 'Missing required property: <name>' error for it.
C13_Required ==
  (calls >= 1 /\ ~outcome.thrown /\ TypeIs(schema, "object") /\ Has(schema, "required")
     /\ DOMAIN schema \subseteq {"type", "required", "properties"}
     /\ (isObject(before, passed) \/ IsNullish(passed))) =>
    \A name \in AbsentRequired(before, schema, passed) :
      LET reported == {i \in 1..Len(outcome.errors) :
                         outcome.errors[i].message = "Missing required property: " \o name}
      IN  IF DeclaresDefault(schema, name)
          THEN /\ reported = {}
               /\ outcome.ok => getValue(heap, outcome.value, name) = PropOf(schema, name).default
          ELSE ~outcome.ok /\ Cardinality(reported) = 1

\* C13 witness: two required names without a default were missing and the
\* Failure has one error for each
C13_TwoMissing ==
  /\ calls = 1
  /\ schema = RequiredTwo
  /\ isObject(before, passed)
  /\ AbsentRequired(before, schema, passed) = {"a", "b"}
  /\ ~outcome.ok
  /\ [i \in 1..Len(outcome.errors) |-> outcome.errors[i].message]
       = <<"Missing required property: a", "Missing required property: b">>

\* the fixed priority in which the types of a list are tried
TypePriority == <<"null", "array", "object", "boolean", "string", "number", "integer">>

\* the value fits the type
Fits(h, value, type) ==
  CASE type = "null" -> value.k = "null"
    [] type = "array" -> IsArray(h, value)
    [] type = "object" -> isObject(h, value)
    [] type = "boolean" -> value.k = "boolean"
    [] type = "string" -> value.k = "string"
    [] type = "number" -> value.k = "number"
    [] type = "integer" -> IsInteger(value)
    [] OTHER -> FALSE

\* the types of a list that the value fits, in the order of the priority
FittingTypes(h, value, types) ==
  SelectSeq(TypePriority, LAMBDA type : Includes(types, type) /\ Fits(h, value, type))

\* C14: for a schema that is a list of types, the outcome is that of the
\* first type of the priority null, array, object, boolean, string, number,
\* integer that is listed and that the value fits (integer only for an
\* integral number); when the value fits no listed type the outcome is a
\* Failure with 'Value must be one of type: ' and the listed types.
C14_TypeList ==
  (calls >= 1 /\ ~outcome.thrown /\ DOMAIN schema = {"type"} /\ schema.type.list) =>
    LET fitting == FittingTypes(before, passed, schema.type.of)
        expected == Alone([type |-> Type(fitting[1])])
    IN  IF fitting = <<>>
        THEN /\ ~outcome.ok
             /\ outcome.errors
                  = <<Err("Value must be one of type: " \o JoinNames(schema.type.of))>>
        ELSE SameOutcome(heap, outcome, expected.h, Outcome(expected))

\* the keywords that are meaningful for a type
KeywordsOf(type) ==
  schemaProps(type)
  \cup (IF type = "object" THEN {"dependentSchemas"} ELSE {})
  \cup (IF type = "array" THEN {"prefixItems"} ELSE {})

\* a schema with `type` replaced by one type and without the keywords that
\* belong to other types only
SingleTyped(s, type) ==
  LET foreign == (UNION {KeywordsOf(TypePriority[i]) : i \in 1..Len(TypePriority)})
                 \ KeywordsOf(type)
  IN  [kw \in (DOMAIN s) \ foreign |-> IF kw = "type" THEN Type(type) ELSE s[kw]]

\* C15: when `type` is a list and the value matches one of the types, the
\* outcome is the outcome of resolving the value against the schema with
\* `type` replaced by the matched type and without the keywords of the other
\* types: base keywords and keywords of the matched type (dependentSchemas
\* for an object, prefixItems for an array) keep their effect.
C15_TypeListFiltering ==
  (calls >= 1 /\ ~outcome.thrown /\ Has(schema, "type") /\ schema.type.list
     /\ DOMAIN schema # {"type"}
     /\ FittingTypes(before, passed, schema.type.of) # <<>>) =>
    LET matched == FittingTypes(before, passed, schema.type.of)[1]
        expected == Alone(SingleTyped(schema, matched))
    IN  SameOutcome(heap, outcome, expected.h, Outcome(expected))

\* the type names that the switch of internalResolveValues knows
SupportedTypes == {"null", "array", "boolean", "integer", "number", "object", "string"}

\* C16: a call never raises an exception, it returns a Success or a
\* Failure; and for a schema whose `type` is an unrecognized name it returns
\* a Failure with 'Unsupported type: <name>'.
C16_NeverRaises ==
  calls >= 1 =>
    /\ ~outcome.thrown
    /\ (DOMAIN schema = {"type"} /\ ~schema.type.list
          /\ schema.type.of[1] \notin SupportedTypes) =>
         /\ ~outcome.ok
         /\ outcome.errors = <<Err("Unsupported type: " \o schema.type.of[1])>>

\* mergeSchemas returned a schema
Merged == merged.by # "none" /\ ~Has(merged.result, "errors")

\* the keyword kw is in the merged schema exactly as it is in the schema s
CarriedFrom(s, kw) ==
  /\ Has(merged.result, kw) <=> Has(s, kw)
  /\ Has(s, kw) => merged.result[kw] = s[kw]

\* C19: the if/then/else of mergeSchemas(a, b) are those of b if b has an
\* `if` (a `then` or `else` that only a has is not in the result), and
\* those of a if b has no `if`.
C19_MergeConditional ==
  Merged =>
    \A kw \in {"if", "then", "else"} :
      CarriedFrom(IF Has(schema2, "if") THEN schema2 ELSE schema1, kw)

\* the value that a schema pins down through a const or a one-element
\* enum, as a list of at most one value
Pinned(s) ==
  IF Has(s, "const") THEN <<s.const>>
  ELSE IF Has(s, "enum") /\ Len(s.enum) = 1 THEN s.enum
  ELSE <<>>

\* the values of the enum of a schema
EnumSet(s) == IF Has(s, "enum") THEN {s.enum[i] : i \in 1..Len(s.enum)} ELSE {}

\* C20: if the two schemas pin down the same single value, the merged
\* schema has it as `const` and has no `enum`; in every other case its enum
\* is the union of the two enums, and the enum of several values of a is
\* kept as it is when b has neither enum nor const.
C20_MergeEnumConst ==
  Merged =>
    IF Pinned(schema1) # <<>> /\ Pinned(schema1) = Pinned(schema2)
    THEN /\ Has(merged.result, "const")
         /\ merged.result.const = Pinned(schema1)[1]
         /\ ~Has(merged.result, "enum")
    ELSE /\ EnumSet(merged.result) = EnumSet(schema1) \cup EnumSet(schema2)
         /\ (Has(schema1, "enum") /\ Len(schema1.enum) > 1
               /\ ~Has(schema2, "enum") /\ ~Has(schema2, "const")) =>
              (Has(merged.result, "enum") /\ merged.result.enum = schema1.enum)

\* the value is valid for the schema without its composition keywords
ValidOtherwise ==
  validateValue(heap, values, Without(schema, {"allOf", "oneOf"}), NoProbeOptions) = <<>>

\* the property names the value has, of a list of names
Owned(names) == {i \in 1..Len(names) : hasOwnProperty(heap, values, names[i])}

\* C18: for a schema whose allOf member is {not: {required}}, validateValue
\* returns an error if and only if the value has every property of
\* not.required; for a schema whose oneOf branches are {required: [k]}, it
\* returns no error if and only if the value has exactly one of the k.
C18_ProbeNotRequired ==
  (validation.done /\ ValidOtherwise) =>
    /\ schema \in ExclusionSchemas =>
         (validation.errors # <<>>
            <=> Owned(schema.allOf[1].not.required) = DOMAIN schema.allOf[1].not.required)
    /\ schema \in ExactlyOneSchemas =>
         (validation.errors = <<>>
            <=> Cardinality(Owned([i \in 1..Len(schema.oneOf) |-> schema.oneOf[i].required[1]]))
                = 1)

\* what a call returns when it runs alone, from the first state
AloneCall(call) == resolveValues(before, invocations[call].schema, invocations[call].values)

\* the call has returned what it returns alone
AsAlone(call) ==
  /\ invocations[call].result.thrown = AloneCall(call).thrown
  /\ SameOutcome(heap, invocations[call].result, AloneCall(call).h, Outcome(AloneCall(call)))

\* C17: a call of resolveValues that ran at the same time as another call,
\* on a schema and a value that share no object with it, returns what it
\* returns when it runs alone, however the steps of the two calls follow
\* one another.
C17_Independent ==
  \A call \in Calls : invocations[call].pc = "done" => AsAlone(call)

\* both calls have returned; the second one reported a missing required
\* property in a step it took while the first one was inside resolveNot
C17_Interleaved ==
  /\ \A call \in Calls : invocations[call].pc = "done"
  /\ invocations[2].amid
  /\ Has(invocations[1].schema, "not")
  /\ invocations[2].schema = RequiredTwo
  /\ ~invocations[2].result.ok

\* the type names a schema allows
TypeNames(s) == {s.type.of[i] : i \in 1..Len(s.type.of)}

\* two typed schemas that no type satisfies: no common type name, and not
\* a number on one side with an integer on the other
Incompatible(A, B) ==
  /\ Has(A, "type") /\ Has(B, "type")
  /\ TypeNames(A) \cap TypeNames(B) = {}
  /\ ~(TypeNames(A) \cap {"number", "integer"} # {}
       /\ TypeNames(B) \cap {"number", "integer"} # {})

\* C21: resolving a value against {allOf: [A, B]} whose members have types
\* that no type satisfies is a Failure that carries the error
\* 'No valid types satisfy both schemas' of the merge.
C21_AllOfTypeConflict ==
  (calls >= 1 /\ ~outcome.thrown /\ DOMAIN schema = {"allOf"} /\ Len(schema.allOf) = 2
     /\ Incompatible(schema.allOf[1], schema.allOf[2])) =>
    /\ ~outcome.ok
    /\ \E i \in 1..Len(outcome.errors) :
         outcome.errors[i].message = "No valid types satisfy both schemas"

\* C22: the path stack is balanced: every resolver step of a call leaves the
\* stack with the contents it had on entry, and the stack is empty when the
\* top-level resolveValues call returns
C22_StackBalanced ==
  (calls >= 1 /\ ~outcome.thrown) => (outcome.balanced /\ outcome.stack = <<>>)

\* C23: the negation-depth counter is lowered for a `not` only after the
\* resolution that this `not` started (the probe, then the resolution of the
\* remaining keywords) has finished, and it is 0 when the top-level
\* resolveValues call returns
C23_NegationDepth ==
  (calls >= 1 /\ ~outcome.thrown) =>
    \A w \in {resolveValues(before, schema, passed)} : ~w.early /\ w.nd - w.pend = 0

\* the place in the collected errors of the first record with the message
FirstAccumulated(all, message) ==
  CHOOSE k \in 1..Len(all) :
    all[k].message = message /\ \A m \in 1..(k - 1) : all[m].message # message

\* C24: the errors that the top-level call returns hold no two records with
\* the same message; the record kept for a message is the first one that was
\* collected, and the records are in the order in which they were collected
C24_Deduplicated ==
  (calls >= 1 /\ ~outcome.ok /\ ~outcome.thrown) =>
    \A i, j \in 1..Len(outcome.errors) :
      /\ (i # j => outcome.errors[i].message # outcome.errors[j].message)
      /\ \E k \in 1..Len(outcome.all) : outcome.all[k].message = outcome.errors[i].message
      /\ outcome.errors[i] = outcome.all[FirstAccumulated(outcome.all, outcome.errors[i].message)]
      /\ (i < j => FirstAccumulated(outcome.all, outcome.errors[i].message)
                     < FirstAccumulated(outcome.all, outcome.errors[j].message))

\* a Failure with two errors, of a call that collected a message twice with
\* different paths
C24_DuplicatesDropped ==
  /\ calls >= 1 /\ ~outcome.ok /\ ~outcome.thrown
  /\ Len(outcome.errors) >= 2
  /\ \E i, j \in 1..Len(outcome.all) :
       /\ i < j
       /\ outcome.all[i].message = outcome.all[j].message
       /\ outcome.all[i].path # outcome.all[j].path

\* the properties of an object that are declared as strings and hold a
\* value that is neither missing nor a string
NotStrings(h, value, s) ==
  {s.properties[i].key : i \in {i \in 1..Len(s.properties) :
      /\ s.properties[i].schema = PStr
      /\ getValue(h, value, s.properties[i].key).k \notin {"undefined", "null", "string"}}}

\* C25: no failure is swallowed: when no required property is missing, every
\* property whose value fails the check of its type makes the call a Failure
\* and is named by the path of at least one of the errors returned, also
\* when two properties fail with the same message
C25_NoFailureSwallowed ==
  (/\ calls >= 1 /\ ~outcome.thrown
   /\ TypeIs(schema, "object") /\ Has(schema, "properties") /\ isObject(before, passed)
   /\ (Has(schema, "required") => missingProps(before, schema, passed) = <<>>)) =>
    \A key \in NotStrings(before, passed, schema) :
      /\ ~outcome.ok
      /\ \E i \in 1..Len(outcome.errors) : Includes(outcome.errors[i].path, key)

\* C26: for a list of item schemas, a Success holds an array as long as the
\* one passed, and elements beyond the list are refused with 'Additional
\* items not allowed' when `additionalItems` is false
C26_TupleItems ==
  (/\ calls = 1 /\ ~outcome.thrown
   /\ TypeIs(schema, "array") /\ Has(schema, "items") /\ schema.items.list
   /\ IsArray(before, passed)) =>
    /\ outcome.ok =>
         /\ IsArray(heap, outcome.value)
         /\ ArrayLength(heap, outcome.value) = ArrayLength(before, passed)
    /\ (/\ ArrayLength(before, passed) > Len(schema.items.of)
        /\ Has(schema, "additionalItems") /\ ~schema.additionalItems.allow) =>
         /\ ~outcome.ok
         /\ \E i \in 1..Len(outcome.errors) :
              outcome.errors[i].message = "Additional items not allowed"

\* C27: the `required` list of an object schema decides for its own
\* properties only: when every property it names is present, the outcome is
\* the one of the schema without the list, whatever the names of the
\* properties of the objects nested in it
C27_ImmediateRequired ==
  (/\ calls = 1 /\ ~outcome.thrown
   /\ DOMAIN schema = {"type", "required", "properties"} /\ TypeIs(schema, "object")
   /\ isObject(before, passed)
   /\ \A i \in 1..Len(schema.required) :
        ~IsNullish(getValue(before, passed, schema.required[i]))) =>
    \A w \in {resolveValues(before, Without(schema, {"required"}), passed)} :
      SameOutcome(heap, outcome, w.h, Outcome(w))

\* the composition keywords that are merged into the node
Flattened == {"allOf", "anyOf", "oneOf"}

\* C28: a node keeps its own keywords when it is merged with the members of
\* its allOf, anyOf or oneOf: a value that the keywords of the node alone
\* refuse is refused by the node with its members
C28_OwnKeywordsKept ==
  (/\ calls = 1 /\ ~outcome.thrown
   /\ (DOMAIN schema) \cap Flattened # {}
   /\ (DOMAIN schema) \cap {"default", "not", "if"} = {}
   /\ ~Alone(Without(schema, Flattened)).thrown) =>
    (~Alone(Without(schema, Flattened)).ok => ~outcome.ok)

\* C29: when the anyOf of property a is satisfied by its second member, no
\* error of the call carries a path through that anyOf: the errors of the
\* first member, which was tried and given up, are not returned
C29_DiscardedBranchErrors ==
  (/\ calls = 1 /\ ~outcome.thrown
   /\ schema = PathAnyOf
   /\ isObject(before, passed)
   /\ getValue(before, passed, "a").k = "number") =>
    \A i \in 1..Len(outcome.errors) : ~Includes(outcome.errors[i].path, "anyOf")

\* C30: every call that internalResolveValues makes while it runs is on a
\* schema smaller than its own: one from which the keyword that led to the
\* call was removed, or one of its sub-schemas
C30_SmallerSchemas ==
  (calls >= 1 /\ ~outcome.thrown) =>
    \A w \in {resolveValues(before, schema, passed)} : ~w.grew

====
